---- MODULE Spec2Model ----
(***************************************************************************)
(* A model of the transport and adapter layer of modern_io / net_io:       *)
(*   - socket handle ownership of TcpClient, UdpTransport and TcpServer    *)
(*     (SpecOwn, and SpecClose for repeated close() / stop() calls),       *)
(*   - the datagram adapters DatagramSink (SpecSink), DatagramSource       *)
(*     (SpecSource) and DuplexDatagramStream (SpecDuplex, and SpecPeer     *)
(*     for its mutex under two threads),                                   *)
(*   - the accept loop of run_server_with_executor (SpecServer, and        *)
(*     SpecServerFair with the scheduler's fairness),                      *)
(*   - TcpServer::start / accept / set_accept_timeout (SpecTcpServer),     *)
(*   - SharedStream and the stream factories (SpecShared),                 *)
(*   - TcpClient::open / write / close call by call (SpecClient),          *)
(*   - the length-prefixed string of DataOutputStream / DataInputStream    *)
(*     over UDP (SpecEcho) and over TCP (SpecTcpString),                   *)
(*   - UdpTransport::write_to (SpecWriteTo) and what write / write_to do   *)
(*     with a send the OS rejects (SpecSend),                              *)
(*   - the UDP client stream of the factories (SpecUdpClient),             *)
(*   - ThreadExecutor (SpecExecutor, and SpecExecutorFair with the         *)
(*     scheduler's fairness),                                              *)
(*   - the constructors of TcpEndpoint and UdpEndpoint (SpecEndpoint),     *)
(*   - copies of a TcpServer (SpecServerCopy),                             *)
(*   - TcpServer::accept listener by listener (SpecAccept),                *)
(*   - the dispatch of handlers by the accept loop                         *)
(*     (SpecServerDispatchFair),                                           *)
(*   - UdpTransport::open call by call (SpecUdpOpen),                      *)
(*   - BufferedOutputStream (SpecBuffered),                                *)
(*   - DataOutputStream and DataInputStream over a file                    *)
(*     (SpecDataRoundTrip).                                                *)
(* The repository holds two copies of net_io_adapters (net_io_adapters.ixx *)
(* and unnamed/part_001); where they differ the variable build says which  *)
(* copy is compiled.                                                       *)
(***************************************************************************)
EXTENDS Integers, Sequences, FiniteSets, TLC

\* ---------------------------------------------------------------- bounds
NObj == 2          \* storage slots for TcpClient / UdpTransport objects
MaxHandles == 3    \* socket handles the OS hands out in one run

MaxWrite == 2      \* bytes in one write() call
MaxWritten == 3    \* bytes written in one run
MaxSends == 2      \* sends the transport issues in one run
MaxDgrams == 2     \* datagrams that arrive in one run
MaxLen == 3        \* bytes in one arriving datagram
MaxRead == 2       \* bytes asked for by one read() call
MaxReads == 3      \* read() calls in one run
MaxWrites == 1     \* plain write() calls on one stream in one run

MaxConns == 2      \* connections that reach the listening socket in one run
MaxLog == 2        \* lines of std::cerr that are kept, the latest ones

NThreads == 2      \* threads that call into one DuplexDatagramStream
MaxStores == 2     \* stores to last_peer_ in one run

MaxCopies == 3     \* SharedStream copies of one stream that exist at a time

MaxTasks == 3      \* tasks submitted to one ThreadExecutor in one run
MaxServers == 2    \* TcpServer objects that exist at a time
MaxCloseCalls == 2 \* ::close calls on one handle value in one run
MaxRounds == 2     \* rounds of the loop in one accept() call
BufSize == 2       \* the BufSize of the BufferedOutputStream, in bytes
MaxBufWrite == 3   \* bytes in one write() call on the BufferedOutputStream
MaxBuffered == 7   \* bytes written to the BufferedOutputStream in one run
MaxOsCalls == 2    \* getaddrinfo calls, and socket calls, counted in one run

MaxStr == 2        \* characters in one string written with write_string
MaxItems == 2      \* values written to one DataOutputStream in one run

MaxAddrs == 1      \* addresses getaddrinfo returns for one address family
MaxTimeout == 1    \* the longest timeout given to set_accept_timeout, in ms

\* ------------------------------------------------------ program constants
invalid_socket == -1
max_packet_ == 65507

VARIABLES
  obj,        \* SpecOwn: slot -> the TcpClient / UdpTransport object in it
  os,         \* SpecOwn: the OS socket table: next fresh handle, ::close calls per handle
  listen_fds_,\* SpecOwn: TcpServer::listen_fds_
  lastCall,   \* SpecClose: history, the last member function called and its object
  again,      \* SpecClose: history, the last call repeated the call before it
  first_closed,\* SpecClose: history, the first call of that run of calls issued an OS close
  reopened,   \* SpecOwn: history, some object had open() called more than once
  udp,        \* datagram specs: the UdpTransport behind the adapters
  inq,        \* datagram specs: datagrams queued in the socket, oldest first
  arrived,    \* datagram specs: history, the payload of every datagram that arrived
  wire,       \* datagram specs: the sends the transport issued, oldest first
  sink_buffer,\* DatagramSink::buffer_
  unsent,     \* SpecSink: history, the bytes written since the last flush
  flushed,    \* SpecSink: history, what each flush / write_to had to send
  wtotal,     \* history, the number of bytes written so far
  src_buffer, \* DatagramSource::buffer_
  src_pos,    \* DatagramSource::pos_
  results,    \* history, what each read() call was asked for and returned
  build,      \* SpecDuplex, SpecServer: the copy of net_io_adapters that is compiled
  last_peer_, \* DuplexDatagramStream::last_peer_ ("nullopt" or an address)
  known_peer, \* SpecDuplex: history, the sender of the last read() that returned
              \* more than 0 bytes or the address of the last set_peer(), the later one
  known_via,  \* SpecDuplex: history, which of the two it was
  last_write, \* SpecDuplex: history, the last plain write() call and what became of it
  accept_timeout_ms_, \* TcpServer::accept_timeout_ms_
  running,    \* SpecServer: the caller's std::atomic<bool> running (its value while it lives)
  released,   \* SpecServer: the caller has returned, its flag and executor are destroyed
  pc,         \* SpecServer: where the accept loop is
  last,       \* SpecServer: history, the last thing the accept loop did
  pending,    \* SpecServer: connections waiting in the listen queue
  arrivals,   \* SpecServer: history, the number of connections that arrived
  conns,      \* SpecServer: the accepted connections: stream, handler, the thread it runs on
  log,        \* SpecServer: the last lines the accept loop wrote to std::cerr
  accept_after_stop, \* SpecServer: history, accept() was called after running was set to false
  acall,      \* SpecTcpServer: the accept() call in progress, if any
  around,     \* SpecTcpServer: history, the last round of accept()'s loop and how it ended
  configured, \* SpecTcpServer: history, the last value given to set_accept_timeout
  sresult,    \* SpecTcpServer: history, the last start() call and how it ended
  sh,         \* SpecShared: a factory's stream: its SharedStream copies, its transport's owners
  mtx_,       \* DuplexDatagramStream::mtx_, 0 or the thread that holds it
  thr,        \* SpecPeer: the member function each thread is in, and its locals
  pair,       \* SpecPeer: last_peer_, the address and the length each named by the store that wrote it
  stored,     \* SpecPeer: the number of stores to last_peer_ so far
  used,       \* SpecPeer: history, the pair the last write() sent to or get_peer() returned
  echo,       \* SpecEcho: the byte order and the strings of the exchange
  ends,       \* SpecEcho: the client and the server: program position, stream, socket queue
  replies,    \* SpecEcho: history, the sends the server's transport issued
  cl,         \* SpecClient: one TcpClient object: fd_, ep_
  cos,        \* SpecClient: the OS: next fresh handle, ::close calls per handle, errno
  ccall,      \* SpecClient: history, the last member call, the OS's answers, the outcome
  heldAtOpen, \* SpecClient: history, the handles the object held when open() was called
  heldAtSocket, \* SpecClient: history, those of them it held when open() called ::socket
  conn,       \* SpecTcpString: one direction of a TCP connection: writer, bytes under way, reader
  asked,      \* SpecWriteTo: history, the destination each send was asked for ("none": a plain write)
  made,       \* SpecUdpClient: history, the factory that made the stream and the endpoint given to it
  snd,        \* SpecSend: a UdpTransport and the history of its write / write_to calls
  tasks,      \* SpecExecutor: the tasks given to ThreadExecutor::execute, each with its thread
  ept,        \* the endpoint last constructed, or how its construction ended
  osc,        \* the OS calls made so far (getaddrinfo, socket), counted
  servers,    \* the TcpServer objects of SpecServerCopy, one per storage slot
  sos,        \* the OS of SpecServerCopy (next handle, close calls per handle)
  asrv,       \* the TcpServer of SpecAccept
  aos,        \* the OS of SpecAccept (next handle, close calls per handle)
  acc,        \* the accept() call of SpecAccept and what its last round met with
  ut,         \* the UdpTransport of SpecUdpOpen
  uos,        \* the OS of SpecUdpOpen (next handle, close calls per handle)
  uopen,      \* history, the last open_bind / open_connect call and how it ended
  bos,        \* the BufferedOutputStream of SpecBuffered (buffer_, pos_, the last call made)
  bsink,      \* the writes its sink has received, in order
  bwritten,   \* history, every byte passed to write(), in order
  dorder,     \* the byte order of the DataOutputStream and of the DataInputStream
  dfile,      \* the bytes the DataOutputStream handed to its sink, in order
  dwritten,   \* the values written, each [kind, val]
  dread       \* what the DataInputStream returned, each [val, ex]

ownVars == <<obj, os, listen_fds_, lastCall, again, first_closed, reopened>>
netVars == <<udp, inq, arrived, wire>>
sinkVars == <<sink_buffer, unsent, flushed, wtotal>>
srcVars == <<src_buffer, src_pos, results>>
dupVars == <<build, last_peer_, known_peer, known_via, last_write>>

srvVars == <<accept_timeout_ms_, running, released, pc, last, pending, arrivals, conns, log,
            accept_after_stop>>

tsVars == <<acall, around, configured, sresult>>

shVars == <<sh>>

peerVars == <<mtx_, thr, pair, stored, used>>

echoVars == <<echo, ends, replies>>

cliVars == <<cl, cos, ccall, heldAtOpen, heldAtSocket>>

strVars == <<conn>>

wtVars == <<asked>>

ucVars == <<made>>

sndVars == <<snd>>

exeVars == <<tasks>>

eptVars == <<ept, osc>>

scVars == <<servers, sos>>

accVars == <<asrv, aos, acc>>

uoVars == <<ut, uos, uopen>>

bosVars == <<bos, bsink, bwritten>>

rtVars == <<dorder, dfile, dwritten, dread>>

\* The variables of the specifications further down, and their state in a
\* specification that does not use them.
laterVars == <<tsVars, shVars, peerVars, echoVars, cliVars, strVars, wtVars, ucVars, sndVars, exeVars, eptVars, scVars, accVars, uoVars, bosVars, rtVars>>














\* The later groups but one.
exceptTs == <<shVars, peerVars, echoVars, cliVars, strVars, wtVars, ucVars, sndVars, exeVars, eptVars, scVars, accVars, uoVars, bosVars, rtVars>>
exceptSh == <<tsVars, peerVars, echoVars, cliVars, strVars, wtVars, ucVars, sndVars, exeVars, eptVars, scVars, accVars, uoVars, bosVars, rtVars>>
exceptPeer == <<tsVars, shVars, echoVars, cliVars, strVars, wtVars, ucVars, sndVars, exeVars, eptVars, scVars, accVars, uoVars, bosVars, rtVars>>
exceptEcho == <<tsVars, shVars, peerVars, cliVars, strVars, wtVars, ucVars, sndVars, exeVars, eptVars, scVars, accVars, uoVars, bosVars, rtVars>>
exceptCli == <<tsVars, shVars, peerVars, echoVars, strVars, wtVars, ucVars, sndVars, exeVars, eptVars, scVars, accVars, uoVars, bosVars, rtVars>>
exceptStr == <<tsVars, shVars, peerVars, echoVars, cliVars, wtVars, ucVars, sndVars, exeVars, eptVars, scVars, accVars, uoVars, bosVars, rtVars>>
exceptWt == <<tsVars, shVars, peerVars, echoVars, cliVars, strVars, ucVars, sndVars, exeVars, eptVars, scVars, accVars, uoVars, bosVars, rtVars>>
exceptUc == <<tsVars, shVars, peerVars, echoVars, cliVars, strVars, wtVars, sndVars, exeVars, eptVars, scVars, accVars, uoVars, bosVars, rtVars>>
exceptSnd == <<tsVars, shVars, peerVars, echoVars, cliVars, strVars, wtVars, ucVars, exeVars, eptVars, scVars, accVars, uoVars, bosVars, rtVars>>
exceptExe == <<tsVars, shVars, peerVars, echoVars, cliVars, strVars, wtVars, ucVars, sndVars, eptVars, scVars, accVars, uoVars, bosVars, rtVars>>
exceptEpt == <<tsVars, shVars, peerVars, echoVars, cliVars, strVars, wtVars, ucVars, sndVars, exeVars, scVars, accVars, uoVars, bosVars, rtVars>>
exceptSc == <<tsVars, shVars, peerVars, echoVars, cliVars, strVars, wtVars, ucVars, sndVars, exeVars, eptVars, accVars, uoVars, bosVars, rtVars>>
exceptAcc == <<tsVars, shVars, peerVars, echoVars, cliVars, strVars, wtVars, ucVars, sndVars, exeVars, eptVars, scVars, uoVars, bosVars, rtVars>>
exceptUo == <<tsVars, shVars, peerVars, echoVars, cliVars, strVars, wtVars, ucVars, sndVars, exeVars, eptVars, scVars, accVars, bosVars, rtVars>>
exceptBos == <<tsVars, shVars, peerVars, echoVars, cliVars, strVars, wtVars, ucVars, sndVars, exeVars, eptVars, scVars, accVars, uoVars, rtVars>>
exceptRt == <<tsVars, shVars, peerVars, echoVars, cliVars, strVars, wtVars, ucVars, sndVars, exeVars, eptVars, scVars, accVars, uoVars, bosVars>>

vars == <<ownVars, netVars, sinkVars, srcVars, dupVars, srvVars, laterVars>>

Objs == 1..NObj
Handles == 1..MaxHandles

Range(s) == {s[i] : i \in DOMAIN s}

\* =====================================================================
\* Socket handle ownership: TcpClient, UdpTransport, TcpServer
\* =====================================================================

\* An unused storage slot (no object constructed in it, or the object destroyed).
NoObject == [st |-> "none", kind |-> "none", fd_ |-> invalid_socket, ep_ |-> "nullopt", opened |-> FALSE]

\* ::socket() / ::accept() returning a new descriptor.
OsSocket(o) == [o EXCEPT !.next = @ + 1]

\* ::close(fd) / ::closesocket(fd).
OsClose(o, fd) == [o EXCEPT !.closes[fd] = @ + 1]

\* TcpClient::close and UdpTransport::close: <<object after, OS after>>.
close_keeps_fd(ob, o) ==
  IF ob.fd_ # invalid_socket THEN <<ob, OsClose(o, ob.fd_)>> ELSE <<ob, o>>

close(ob, o) ==
  IF ob.fd_ # invalid_socket
    THEN <<[ob EXCEPT !.fd_ = invalid_socket], OsClose(o, ob.fd_)>>
    ELSE <<ob, o>>

\* explicit TcpClient(sock_t fd): fd_(fd), ep_(nullopt)
TcpClient_from_fd(fd) ==
  [st |-> "live", kind |-> "TcpClient", fd_ |-> fd, ep_ |-> "nullopt", opened |-> FALSE]

\* explicit TcpClient(const TcpEndpoint& ep): ep_(ep); fd_ keeps its initializer
TcpClient_from_ep ==
  [st |-> "live", kind |-> "TcpClient", fd_ |-> invalid_socket, ep_ |-> "set", opened |-> FALSE]

\* UdpTransport() = default
UdpTransport_default ==
  [st |-> "live", kind |-> "UdpTransport", fd_ |-> invalid_socket, ep_ |-> "nullopt", opened |-> FALSE]

\* explicit UdpTransport(sock_t fd)
UdpTransport_from_fd(fd) ==
  [st |-> "live", kind |-> "UdpTransport", fd_ |-> fd, ep_ |-> "nullopt", opened |-> FALSE]

\* std::move of the optional endpoint: an engaged optional stays engaged (it
\* holds a moved-from TcpEndpoint), an empty one stays empty.
MovedEp(e) == e

\* The move constructors: <<new object, moved-from object>>.
move_construct(other) ==
  << [st |-> "live", kind |-> other.kind, fd_ |-> other.fd_, ep_ |-> other.ep_, opened |-> FALSE],
     [other EXCEPT !.fd_ = invalid_socket, !.ep_ = MovedEp(other.ep_)] >>

\* The move assignment operators, for this # &other:
\* <<target after, moved-from object, OS after>>.
move_assign(this, other, o) ==
  LET c == close(this, o) IN
  << [c[1] EXCEPT !.fd_ = other.fd_, !.ep_ = other.ep_],
     [other EXCEPT !.fd_ = invalid_socket, !.ep_ = MovedEp(other.ep_)],
     c[2] >>

\* The outcomes of TcpClient::open(): <<object after, OS after>>.
\*   "no_endpoint"  ep_ is empty: throws before anything is touched
\*   "resolve"      to_sockaddr throws
\*   "socket"       ::socket fails: fd_ is invalid_socket
\*   "connect"      ::connect fails: the new socket is closed, fd_ is invalid_socket
\*   "ok"           fd_ is the new socket
TcpOpenOutcomes(ob) ==
  IF ob.ep_ = "nullopt" THEN {"no_endpoint"}
  ELSE {"resolve", "socket", "connect", "ok"}

TcpClient_open(ob, o, outcome) ==
  LET called == [ob EXCEPT !.opened = TRUE] IN
  CASE outcome \in {"no_endpoint", "resolve"} -> <<called, o>>
    [] outcome = "socket"  -> <<[called EXCEPT !.fd_ = invalid_socket], o>>
    [] outcome = "connect" -> <<[called EXCEPT !.fd_ = invalid_socket],
                                OsClose(OsSocket(o), o.next)>>
    [] outcome = "ok"      -> <<[called EXCEPT !.fd_ = o.next], OsSocket(o)>>

\* The outcomes of UdpTransport::open_bind / open_connect:
\*   "resolve"  to_sockaddr throws
\*   "socket"   ::socket fails: fd_ is invalid_socket
\*   "bind", "connect"  ::bind / ::connect fails: throws, fd_ keeps the new socket
\*   "ok"
UdpOpenOutcomes == {"resolve", "socket", "bind", "connect", "ok"}

UdpTransport_open(ob, o, outcome) ==
  LET called == [ob EXCEPT !.opened = TRUE] IN
  CASE outcome = "resolve" -> <<called, o>>
    [] outcome = "socket"  -> <<[called EXCEPT !.fd_ = invalid_socket], o>>
    [] outcome \in {"bind", "connect", "ok"} -> <<[called EXCEPT !.fd_ = o.next], OsSocket(o)>>

\* TcpServer::stop: closes every listening socket, clears the list: <<list after, OS after>>.
RECURSIVE CloseAll(_, _)
CloseAll(fds, o) ==
  IF fds = <<>> THEN o ELSE CloseAll(Tail(fds), OsClose(o, Head(fds)))

stop(fds, o) == <<(<<>>), CloseAll(fds, o)>>

\* TcpServer::start: one listening socket per address family that could be
\* bound (bound \in 0..2); throws when the list is empty afterwards.
RECURSIVE Listen(_, _, _)
Listen(fds, o, bound) ==
  IF bound = 0 THEN <<fds, o>>
  ELSE Listen(Append(fds, o.next), OsSocket(o), bound - 1)

start(fds, o, bound) == Listen(fds, o, bound)

\* ---------------------------------------------------------------- history
\* The history of calls is kept in SpecClose only (lastCall is "off" in
\* SpecOwn). Only close() and stop() calls are told apart; every other call
\* is "other".
Called(op, o) ==
  IF lastCall[1] = "off"
    THEN UNCHANGED <<lastCall, again, first_closed>>
    ELSE LET c == IF op \in {"close", "stop"} THEN <<op, o>> ELSE <<"other", 0>> IN
         /\ lastCall' = c
         /\ again' = (op \in {"close", "stop"} /\ lastCall = c)
         /\ first_closed' = IF again' THEN first_closed
                                     ELSE (op \in {"close", "stop"} /\ os'.closes # os.closes)

\* ---------------------------------------------------------------- actions
FreshAvailable(n) == os.next + n - 1 <= MaxHandles

\* The state of the parts a specification does not use.
OwnIdle ==
  /\ obj = [o \in Objs |-> NoObject]
  /\ os = [next |-> 1, closes |-> [h \in Handles |-> 0]]
  /\ listen_fds_ = <<>>
  /\ lastCall = <<"other", 0>>
  /\ again = FALSE
  /\ first_closed = FALSE
  /\ reopened = FALSE

NetIdle ==
  /\ udp = [file |-> "udp_transport.ixx", isBoundLocal |-> FALSE, peer |-> "none"]
  /\ inq = <<>>
  /\ arrived = <<>>
  /\ wire = <<>>

SinkIdle ==
  /\ sink_buffer = <<>>
  /\ unsent = <<>>
  /\ flushed = <<>>
  /\ wtotal = 0

SrcIdle ==
  /\ src_buffer = [size |-> 0, bytes |-> <<>>]
  /\ src_pos = 0
  /\ results = <<>>

NoWrite == [made |-> FALSE, known |-> "none", via |-> "none", raised |-> FALSE,
            sent |-> FALSE, dest |-> "none"]

DupIdle ==
  /\ build = "net_io_adapters.ixx"
  /\ last_peer_ = "nullopt"
  /\ known_peer = "none"
  /\ known_via = "none"
  /\ last_write = NoWrite

SrvIdle ==
  /\ accept_timeout_ms_ = -1
  /\ running = TRUE
  /\ released = FALSE
  /\ pc = "check"
  /\ last = "none"
  /\ pending = 0
  /\ arrivals = 0
  /\ conns = <<>>
  /\ log = <<>>
  /\ accept_after_stop = FALSE

TsIdle ==
  /\ acall = "idle"
  /\ around = [how |-> "none", ready |-> 1, cfg |-> [set |-> FALSE, ms |-> -1]]
  /\ configured = [set |-> FALSE, ms |-> -1]
  /\ sresult = [called |-> FALSE, raised |-> "none", bound |-> 0, held |-> 0]

ShIdle ==
  /\ sh = [made |-> FALSE, factory |-> "none", holders |-> {}, trefs |-> {}, fd |-> invalid_socket,
           peak |-> 0]

PeerIdle ==
  /\ mtx_ = 0
  /\ thr = [t \in 1..NThreads |-> [op |-> "none", pc |-> "idle", first |-> 0, second |-> 0]]
  /\ pair = [engaged |-> FALSE, first |-> 0, second |-> 0]
  /\ stored = 0
  /\ used = [by |-> "none", first |-> 0, second |-> 0]

EchoIdle ==
  /\ echo = [order |-> "big", req |-> <<>>, reply |-> <<>>]
  /\ ends = [side \in {"client", "server"} |->
               [pc |-> 4, raised |-> "none", len |-> 0, got |-> <<>>, last_peer_ |-> "nullopt",
                udp |-> [file |-> "udp_transport.ixx", isBoundLocal |-> FALSE, peer |-> "none"],
                inq |-> <<>>]]
  /\ replies = <<>>

CliIdle ==
  /\ cl = [st |-> "none", fd_ |-> invalid_socket, ep_ |-> "nullopt"]
  /\ cos = [next |-> 1, closes |-> [h \in 1..MaxHandles |-> 0], errno |-> "none"]
  /\ ccall = [op |-> "none", before |-> invalid_socket, ep |-> "nullopt",
              env |-> [resolves |-> TRUE, socket |-> TRUE, connect |-> TRUE,
                       errno |-> "none", close_errno |-> "kept"],
              raised |-> "none", code |-> "none", created |-> invalid_socket,
              size |-> 0, oswrites |-> <<>>]
  /\ heldAtOpen = {}
  /\ heldAtSocket = {}

StrIdle ==
  /\ conn = [order |-> "big", s |-> <<>>, sender |-> "done", receiver |-> "done",
             stream |-> <<>>, len |-> 0, got |-> <<>>, oserr |-> FALSE, short |-> FALSE]

WtIdle ==
  /\ asked = <<>>

UcIdle ==
  /\ made = [factory |-> "none", ep |-> "none"]

SndIdle ==
  /\ snd = [open |-> FALSE, calls |-> <<>>]

ExeIdle ==
  /\ tasks = <<>>

EptIdle ==
  /\ ept = [st |-> "none"]
  /\ osc = [getaddrinfo |-> 0, socket |-> 0]

\* Storage slots for TcpServer objects.
Srvs == 1..MaxServers

\* A slot without a TcpServer in it.
NoServer == [st |-> "none", listen_fds_ |-> <<>>]

ScIdle ==
  /\ servers = [s \in Srvs |-> NoServer]
  /\ sos = [next |-> 1, closes |-> [h \in Handles |-> 0]]

\* No accept() call has been made.
NoAccept ==
  [st |-> "idle", how |-> "none", client |-> NoObject, at |-> <<>>, rfds |-> {},
   out |-> [h \in Handles |-> "invalid_socket"], rounds |-> 0]

AccIdle ==
  /\ asrv = [listen_fds_ |-> <<>>]
  /\ aos = [next |-> 1, closes |-> [h \in Handles |-> 0]]
  /\ acc = NoAccept

\* No open_bind / open_connect call has been made since the last close().
NoOpen == [fn |-> "none", bind_local |-> FALSE, outcome |-> "none", raised |-> FALSE]

UoIdle ==
  /\ ut = UdpTransport_default
  /\ uos = [next |-> 1, closes |-> [h \in Handles |-> 0]]
  /\ uopen = NoOpen

\* explicit BufferedOutputStream(S sink): buffer_.resize(BufSize), pos_(0)
BufferedOutputStream_new == [buffer_ |-> [k \in 1..BufSize |-> 0], pos_ |-> 0, last |-> "none"]

\* A variant that hands the sink the whole buffer.
flush_buffer_whole(b, w) ==
  IF b.pos_ > 0 THEN [b |-> [b EXCEPT !.pos_ = 0], w |-> Append(w, b.buffer_)]
  ELSE [b |-> b, w |-> w]

\* flush_buffer(): sink_.write(span(buffer_.data(), pos_)); pos_ = 0; when pos_ > 0
flush_buffer(b, w) ==
  IF b.pos_ > 0
    THEN [b |-> [b EXCEPT !.pos_ = 0], w |-> Append(w, [k \in 1..b.pos_ |-> b.buffer_[k]])]
    ELSE [b |-> b, w |-> w]

BosIdle ==
  /\ bos = BufferedOutputStream_new
  /\ bsink = <<>>
  /\ bwritten = <<>>

RtIdle ==
  /\ dorder = "big"
  /\ dfile = <<>>
  /\ dwritten = <<>>
  /\ dread = <<>>

LaterIdle == TsIdle /\ ShIdle /\ PeerIdle /\ EchoIdle /\ CliIdle /\ StrIdle /\ WtIdle /\ UcIdle /\ SndIdle /\ ExeIdle /\ EptIdle /\ ScIdle /\ AccIdle /\ UoIdle /\ BosIdle /\ RtIdle

OwnOnly == UNCHANGED <<netVars, sinkVars, srcVars, dupVars, srvVars, laterVars>>

OwnInit ==
  /\ NetIdle /\ SinkIdle /\ SrcIdle /\ DupIdle /\ SrvIdle /\ LaterIdle
  /\ obj = [o \in Objs |-> NoObject]
  /\ os = [next |-> 1, closes |-> [h \in Handles |-> 0]]
  /\ listen_fds_ = <<>>
  /\ lastCall = <<"off", 0>>
  /\ again = FALSE
  /\ first_closed = FALSE
  /\ reopened = FALSE

\* TcpClient(fd) / UdpTransport(fd) around a socket the OS has just handed out
\* (TcpServer::accept wraps the result of ::accept this way).
ConstructFromHandle(o, k) ==
  /\ obj[o].st = "none"
  /\ FreshAvailable(1)
  /\ obj' = [obj EXCEPT ![o] = IF k = "TcpClient" THEN TcpClient_from_fd(os.next)
                                                  ELSE UdpTransport_from_fd(os.next)]
  /\ os' = OsSocket(os)
  /\ Called("construct", o)
  /\ OwnOnly
  /\ UNCHANGED <<listen_fds_, reopened>>

ConstructClosed(o, k) ==
  /\ obj[o].st = "none"
  /\ obj' = [obj EXCEPT ![o] = IF k = "TcpClient" THEN TcpClient_from_ep
                                                  ELSE UdpTransport_default]
  /\ Called("construct", o)
  /\ OwnOnly
  /\ UNCHANGED <<os, listen_fds_, reopened>>

MoveConstruct(o, p) ==
  /\ obj[o].st = "none"
  /\ obj[p].st = "live"
  /\ LET r == move_construct(obj[p]) IN
       obj' = [obj EXCEPT ![o] = r[1], ![p] = r[2]]
  /\ Called("move_construct", o)
  /\ OwnOnly
  /\ UNCHANGED <<os, listen_fds_, reopened>>

MoveAssign(o, p) ==
  /\ obj[o].st = "live"
  /\ obj[p].st = "live"
  /\ obj[o].kind = obj[p].kind
  /\ IF o = p
       THEN UNCHANGED <<obj, os>>
       ELSE LET r == move_assign(obj[o], obj[p], os) IN
              /\ obj' = [obj EXCEPT ![o] = r[1], ![p] = r[2]]
              /\ os' = r[3]
  /\ Called("move_assign", o)
  /\ OwnOnly
  /\ UNCHANGED <<listen_fds_, reopened>>

Open(o) ==
  /\ obj[o].st = "live"
  /\ FreshAvailable(1)
  /\ \E outcome \in IF obj[o].kind = "TcpClient" THEN TcpOpenOutcomes(obj[o])
                                                  ELSE UdpOpenOutcomes :
       LET r == IF obj[o].kind = "TcpClient" THEN TcpClient_open(obj[o], os, outcome)
                                             ELSE UdpTransport_open(obj[o], os, outcome) IN
         /\ obj' = [obj EXCEPT ![o] = r[1]]
         /\ os' = r[2]
  /\ reopened' = (reopened \/ obj[o].opened)
  /\ Called("open", o)
  /\ OwnOnly
  /\ UNCHANGED listen_fds_

Close(o) ==
  /\ obj[o].st = "live"
  /\ LET r == close(obj[o], os) IN
       /\ obj' = [obj EXCEPT ![o] = r[1]]
       /\ os' = r[2]
  /\ Called("close", o)
  /\ OwnOnly
  /\ UNCHANGED <<listen_fds_, reopened>>

\* ~TcpClient / ~UdpTransport: close(), then the storage is free again.
Destroy(o) ==
  /\ obj[o].st = "live"
  /\ LET r == close(obj[o], os) IN
       /\ obj' = [obj EXCEPT ![o] = NoObject]
       /\ os' = r[2]
  /\ Called("destroy", o)
  /\ OwnOnly
  /\ UNCHANGED <<listen_fds_, reopened>>

ServerStart(bound) ==
  /\ FreshAvailable(bound)
  /\ LET r == start(listen_fds_, os, bound) IN
       /\ listen_fds_' = r[1]
       /\ os' = r[2]
  /\ Called("start", 0)
  /\ OwnOnly
  /\ UNCHANGED <<obj, reopened>>

ServerStop ==
  /\ LET r == stop(listen_fds_, os) IN
       /\ listen_fds_' = r[1]
       /\ os' = r[2]
  /\ Called("stop", 0)
  /\ OwnOnly
  /\ UNCHANGED <<obj, reopened>>

Kinds == {"TcpClient", "UdpTransport"}

OwnNext ==
  \/ \E o \in Objs, k \in Kinds : ConstructFromHandle(o, k)
  \/ \E o \in Objs, k \in Kinds : ConstructClosed(o, k)
  \/ \E o \in Objs, p \in Objs : MoveConstruct(o, p)
  \/ \E o \in Objs, p \in Objs : MoveAssign(o, p)
  \/ \E o \in Objs : Open(o)
  \/ \E o \in Objs : Close(o)
  \/ \E o \in Objs : Destroy(o)
  \/ \E bound \in 0..2 : ServerStart(bound)
  \/ ServerStop

SpecOwn == OwnInit /\ [][OwnNext]_vars

\* close() and stop() called over and over: one object, the server, and the
\* history of the calls.
CloseInit ==
  /\ NetIdle /\ SinkIdle /\ SrcIdle /\ DupIdle /\ SrvIdle /\ LaterIdle
  /\ obj = [o \in Objs |-> NoObject]
  /\ os = [next |-> 1, closes |-> [h \in Handles |-> 0]]
  /\ listen_fds_ = <<>>
  /\ lastCall = <<"other", 0>>
  /\ again = FALSE
  /\ first_closed = FALSE
  /\ reopened = FALSE

CloseNext ==
  \/ \E k \in Kinds : ConstructFromHandle(1, k)
  \/ \E k \in Kinds : ConstructClosed(1, k)
  \/ Open(1)
  \/ Close(1)
  \/ Destroy(1)
  \/ \E bound \in 0..2 : ServerStart(bound)
  \/ ServerStop

SpecClose == CloseInit /\ [][CloseNext]_vars

\* ------------------------------------------------------------- properties
Allocated(h) == h < os.next

\* The owners of handle h: the live objects whose fd_ is h, and the server
\* (written 0) when h is one of its listening sockets.
HeldBy(h) ==
  {o \in Objs : obj[o].st = "live" /\ obj[o].fd_ = h}
    \cup (IF h \in Range(listen_fds_) THEN {0} ELSE {})

\* No handle is closed twice, none has two owners, none is held after its close.
NoDoubleOwnerNoDoubleClose ==
  \A h \in Handles : Allocated(h) =>
    /\ os.closes[h] <= 1
    /\ Cardinality(HeldBy(h)) <= 1
    /\ (os.closes[h] = 1 => HeldBy(h) = {})

\* C1: as long as no object was opened more than once, every socket handle is
\* held by at most one object and is closed exactly once: a handle that is still
\* open has exactly one owner (whose destruction will close it), a closed handle
\* was closed once and has no owner.
C1_HandleOwnedOnceClosedOnce ==
  ~reopened =>
    \A h \in Handles : Allocated(h) =>
      /\ os.closes[h] <= 1
      /\ (os.closes[h] = 0 => Cardinality(HeldBy(h)) = 1)
      /\ (os.closes[h] = 1 => HeldBy(h) = {})

\* C2: close() and stop() leave the handle invalid / the list empty, and a
\* second call right after the first issues no OS close and changes nothing.
C2_CloseIdempotent ==
  [][ /\ \A o \in Objs : lastCall' = <<"close", o>> => obj'[o].fd_ = invalid_socket
      /\ lastCall' = <<"stop", 0>> => listen_fds_' = <<>>
      /\ again' => (obj' = obj /\ os' = os /\ listen_fds_' = listen_fds_) ]_vars

\* close() was called twice in a row on an object whose socket the first call closed.
C2_Witness == again /\ first_closed /\ lastCall[1] = "close"

\* =====================================================================
\* The UDP transport as the adapters see it
\* =====================================================================
Addr == {"A", "B"}

\* An open UdpTransport. peer is the address the socket is connected to:
\* "none" after open_bind, the endpoint's address after open_connect. The
\* copy in unnamed/part_000 has the member isBoundLocal, which open_bind sets
\* from ep.bind_local and which is false otherwise.
UdpTransports ==
  {[file |-> "udp_transport.ixx", isBoundLocal |-> FALSE, peer |-> p] :
     p \in Addr \cup {"none"}}
    \cup {[file |-> "part_000", isBoundLocal |-> b, peer |-> "none"] : b \in BOOLEAN}
    \cup {[file |-> "part_000", isBoundLocal |-> FALSE, peer |-> p] : p \in Addr}

\* UdpTransport::write: ::send on the socket, whose result is ignored. The
\* datagram goes to the connected peer; on a socket that is not connected
\* ::send fails and the datagram goes nowhere.
UdpTransport_write(u, w, data) ==
  Append(w, [to |-> IF u.peer = "none" THEN "nowhere" ELSE u.peer, data |-> data])

\* UdpTransport::write_to: ::sendto the given address; the copy in part_000
\* does so only when isBoundLocal, and otherwise calls write().
UdpTransport_write_to(u, w, data, addr) ==
  IF u.file = "part_000" /\ ~u.isBoundLocal
    THEN UdpTransport_write(u, w, data)
    ELSE Append(w, [to |-> addr, data |-> data])

\* =====================================================================
\* DatagramSink
\* =====================================================================
\* The bytes of a write: the bytes written in one run are numbered, so that
\* every byte is told apart from every other.
Data(first, size) == [k \in 1..size |-> first + k]

\* DatagramSink::write: buffer_.insert(buffer_.end(), data, data + size)
DatagramSink_write_replaces(buffer, data) == data

DatagramSink_write(buffer, data) == buffer \o data

\* DatagramSink::flush: <<buffer_ after, sends after>>
DatagramSink_flush(buffer, u, w) ==
  IF buffer # <<>>
    THEN <<(<<>>), UdpTransport_write(u, w, buffer)>>
    ELSE <<buffer, w>>

\* DatagramSink::write_to: passes the datagram on, buffer_ is not used
DatagramSink_write_to(u, w, data, addr) == UdpTransport_write_to(u, w, data, addr)

SinkOnly == UNCHANGED <<ownVars, srcVars, dupVars, srvVars, laterVars, udp, inq, arrived>>

SinkInit ==
  /\ OwnIdle /\ SrcIdle /\ SinkIdle /\ DupIdle /\ SrvIdle /\ LaterIdle
  /\ udp \in UdpTransports
  /\ inq = <<>>
  /\ arrived = <<>>
  /\ wire = <<>>

SinkWrite(size) ==
  /\ wtotal + size <= MaxWritten
  /\ sink_buffer' = DatagramSink_write(sink_buffer, Data(wtotal, size))
  /\ unsent' = unsent \o Data(wtotal, size)
  /\ wtotal' = wtotal + size
  /\ UNCHANGED <<wire, flushed>>
  /\ SinkOnly

SinkFlush ==
  /\ Len(wire) < MaxSends
  /\ LET r == DatagramSink_flush(sink_buffer, udp, wire) IN
       /\ sink_buffer' = r[1]
       /\ wire' = r[2]
  /\ flushed' = IF unsent # <<>> THEN Append(flushed, unsent) ELSE flushed
  /\ unsent' = <<>>
  /\ UNCHANGED wtotal
  /\ SinkOnly

SinkWriteTo(size, addr) ==
  /\ wtotal + size <= MaxWritten
  /\ Len(wire) < MaxSends
  /\ wire' = DatagramSink_write_to(udp, wire, Data(wtotal, size), addr)
  /\ flushed' = Append(flushed, Data(wtotal, size))
  /\ wtotal' = wtotal + size
  /\ UNCHANGED <<sink_buffer, unsent>>
  /\ SinkOnly

SinkNext ==
  \/ \E size \in 0..MaxWrite : SinkWrite(size)
  \/ SinkFlush
  \/ \E size \in 0..MaxWrite, addr \in Addr : SinkWriteTo(size, addr)

SpecSink == SinkInit /\ [][SinkNext]_vars

\* C5: the transport has been asked to send exactly once per flush() that
\* followed at least one written byte (and once per write_to), with the bytes
\* written since the flush before, in order; the bytes written since the last
\* flush are all still in the buffer and none of them has been sent.
C5_OneDatagramPerFlush ==
  /\ Len(wire) = Len(flushed)
  /\ \A i \in 1..Len(wire) : wire[i].data = flushed[i]
  /\ sink_buffer = unsent

\* Two writes, then a flush that sent their bytes as one datagram.
C5_Witness ==
  /\ \E i \in 1..Len(wire) : wire[i].to \in Addr /\ Len(wire[i].data) > MaxWrite
  /\ sink_buffer = <<>>

\* =====================================================================
\* DatagramSource
\* =====================================================================
Min(a, b) == IF a <= b THEN a ELSE b

RECURSIVE Flatten(_)
Flatten(ss) == IF ss = <<>> THEN <<>> ELSE Head(ss) \o Flatten(Tail(ss))

\* The payload of the j-th datagram to arrive: byte k of it is <<j, k>>, so
\* that every received byte is told apart from every other.
Payload(j, len) == [k \in 1..len |-> <<j, k>>]

\* A value-initialized char (what vector::resize appends).
ZeroByte == <<0, 0>>

\* buffer_ is a record: its size() and the elements that were ever written;
\* the elements after them, up to size(), are ZeroByte.
ByteAt(buffer, i) == IF i <= Len(buffer.bytes) THEN buffer.bytes[i] ELSE ZeroByte

\* buffer_.resize(n)
Resize(buffer, n) ==
  [size |-> n, bytes |-> SubSeq(buffer.bytes, 1, Min(n, Len(buffer.bytes)))]

\* UdpTransport::read on a socket with a datagram queued: recvfrom copies at
\* most size bytes of the oldest datagram and drops the rest of it.
UdpTransport_read(q, size) ==
  [n |-> Min(size, Len(Head(q).data)),
   data |-> SubSeq(Head(q).data, 1, Min(size, Len(Head(q).data))),
   from |-> Head(q).from,
   q |-> Tail(q)]

\* The end of DatagramSource::read: min, memcpy, pos_ += chunk.
Deliver(buffer, pos, q, size) ==
  LET chunk == Min(size, buffer.size - pos) IN
  [buffer |-> buffer, pos |-> pos + chunk, q |-> q, thrown |-> FALSE,
   ret |-> [k \in 1..chunk |-> ByteAt(buffer, pos + k)]]

\* DatagramSource::read(char*, size_t). recv is what the transport does when
\* a datagram has to be fetched: "datagram" (there is one queued) or "throw".
DatagramSource_read_pads(buffer, pos, q, size, recv) ==
  IF pos >= buffer.size
    THEN LET resized == Resize(buffer, max_packet_) IN
         IF recv = "throw"
           THEN [buffer |-> resized, pos |-> pos, q |-> q, thrown |-> TRUE, ret |-> <<>>]
           ELSE LET got == UdpTransport_read(q, resized.size) IN
                IF got.n = 0
                  THEN Deliver(resized, 0, got.q, size)
                  ELSE Deliver([size |-> got.n, bytes |-> got.data], 0, got.q, size)
    ELSE Deliver(buffer, pos, q, size)

DatagramSource_read(buffer, pos, q, size, recv) ==
  IF pos >= buffer.size
    THEN LET resized == Resize(buffer, max_packet_) IN
         IF recv = "throw"
           THEN [buffer |-> resized, pos |-> pos, q |-> q, thrown |-> TRUE, ret |-> <<>>]
           ELSE LET got == UdpTransport_read(q, resized.size) IN
                IF got.n = 0
                  THEN [buffer |-> resized, pos |-> pos, q |-> got.q, thrown |-> FALSE,
                        ret |-> <<>>]
                  ELSE Deliver([size |-> got.n, bytes |-> got.data], 0, got.q, size)
    ELSE Deliver(buffer, pos, q, size)

SrcOnly == UNCHANGED <<ownVars, sinkVars, dupVars, srvVars, laterVars, udp, wire>>

SrcInit ==
  /\ OwnIdle /\ NetIdle /\ SinkIdle /\ SrcIdle /\ DupIdle /\ SrvIdle /\ LaterIdle

\* A datagram of len bytes from the peer at address from reaches the socket.
Arrive(from, len) ==
  /\ Len(arrived) < MaxDgrams
  /\ inq' = Append(inq, [from |-> from, data |-> Payload(Len(arrived) + 1, len)])
  /\ arrived' = Append(arrived, Payload(Len(arrived) + 1, len))
  /\ UNCHANGED <<src_buffer, src_pos, results>>
  /\ SrcOnly

\* read(data, size) that is served from buffer_, or fetches the oldest queued
\* datagram; with nothing buffered and nothing queued the call blocks in recvfrom.
SourceRead(size) ==
  /\ Len(results) < MaxReads
  /\ src_pos < src_buffer.size \/ inq # <<>>
  /\ LET r == DatagramSource_read(src_buffer, src_pos, inq, size, "datagram") IN
       /\ src_buffer' = r.buffer
       /\ src_pos' = r.pos
       /\ inq' = r.q
       /\ results' = Append(results, [size |-> size, data |-> r.ret, thrown |-> FALSE])
  /\ UNCHANGED arrived
  /\ SrcOnly

\* read(data, size) whose fetch raises (recvfrom fails, or the socket is closed).
SourceReadThrows(size) ==
  /\ Len(results) < MaxReads
  /\ src_pos >= src_buffer.size
  /\ LET r == DatagramSource_read(src_buffer, src_pos, inq, size, "throw") IN
       /\ src_buffer' = r.buffer
       /\ src_pos' = r.pos
       /\ inq' = r.q
       /\ results' = Append(results, [size |-> size, data |-> r.ret, thrown |-> TRUE])
  /\ UNCHANGED arrived
  /\ SrcOnly

SrcNext ==
  \/ \E from \in Addr, len \in 0..MaxLen : Arrive(from, len)
  \/ \E size \in 0..MaxRead : SourceRead(size)
  \/ \E size \in 0..MaxRead : SourceReadThrows(size)

SpecSource == SrcInit /\ [][SrcNext]_vars

\* The datagrams the source has taken from the socket, oldest first.
Fetched == SubSeq(arrived, 1, Len(arrived) - Len(inq))

ReadData == [i \in 1..Len(results) |-> results[i].data]

IsPrefix(s, t) == Len(s) <= Len(t) /\ s = SubSeq(t, 1, Len(s))

\* C6: for non-empty datagrams and read sizes of 1 and more, (1) a read
\* result holds bytes of one datagram only, min(size, what is left of that
\* datagram) of them, (2) the results, in order, are the payloads of the
\* fetched datagrams in order, nothing skipped or repeated, (3) every datagram
\* but the last fetched one has been delivered in full, and (4) once the
\* position is at the end of the buffer the results are the whole of the
\* fetched payloads.
C6_NoReadSpansDatagrams ==
  (/\ \A j \in 1..Len(arrived) : arrived[j] # <<>>
   /\ \A i \in 1..Len(results) : results[i].size >= 1) =>
    /\ \A i \in 1..Len(results) :
         LET d == results[i].data IN
           ~results[i].thrown =>
             /\ d # <<>>
             /\ d[1][1] \in 1..Len(arrived)
             /\ \A k \in 1..Len(d) : d[k][1] = d[1][1]
             /\ Len(d) = Min(results[i].size, Len(arrived[d[1][1]]) - d[1][2] + 1)
    /\ IsPrefix(Flatten(ReadData), Flatten(Fetched))
    /\ Fetched # <<>> =>
         Len(Flatten(ReadData)) >= Len(Flatten(SubSeq(Fetched, 1, Len(Fetched) - 1)))
    /\ src_pos >= src_buffer.size => Flatten(ReadData) = Flatten(Fetched)

\* C33: the read position never passes the received bytes that the buffer
\* holds, and every byte a read() has returned is a byte of a fetched datagram,
\* the returned bytes being a prefix of the fetched payloads: none comes from
\* the unfilled part of the buffer, whatever receives returned 0 or raised.
C33_ReadsOnlyReceivedBytes ==
  /\ src_pos <= Len(src_buffer.bytes)
  /\ \A i \in 1..Len(results) : \A k \in 1..Len(results[i].data) : results[i].data[k] # ZeroByte
  /\ IsPrefix(Flatten(ReadData), Flatten(Fetched))

\* =====================================================================
\* DuplexDatagramStream
\* =====================================================================
Builds == {"net_io_adapters.ixx", "part_001"}

\* DatagramSource::read(char*, size_t, sockaddr_storage*, socklen_t*): straight
\* to the transport, buffer_ and pos_ are not used.
DatagramSource_read_from(q, size) == UdpTransport_read(q, size)

\* DuplexDatagramStream::read with a datagram queued: the peer after, the queue
\* after, the bytes returned.
DuplexDatagramStream_read(peer, q, size) ==
  LET got == DatagramSource_read_from(q, size) IN
  [peer |-> IF got.n > 0 THEN got.from ELSE peer, q |-> got.q, ret |-> got.data]

\* What *last_peer_ can be read as when the optional is empty (it holds no
\* object): any address, or bytes that are no address at all.
EmptyOptionalReadsAs == Addr \cup {"unset"}

\* DuplexDatagramStream::write. net_io_adapters.ixx throws when last_peer_ is
\* empty; in part_001 that check is commented out and the empty optional is
\* dereferenced, any being what is read from it.
DuplexDatagramStream_write(b, peer, u, w, data, any) ==
  IF peer = "nullopt"
    THEN IF b = "net_io_adapters.ixx"
           THEN [raised |-> TRUE, sent |-> FALSE, dest |-> "none", wire |-> w]
           ELSE [raised |-> FALSE, sent |-> TRUE, dest |-> any,
                 wire |-> DatagramSink_write_to(u, w, data, any)]
    ELSE [raised |-> FALSE, sent |-> TRUE, dest |-> peer,
          wire |-> DatagramSink_write_to(u, w, data, peer)]

\* DuplexDatagramStream::set_peer
DuplexDatagramStream_set_peer(addr) == addr

DupOnly ==
  UNCHANGED <<ownVars, srvVars, laterVars, udp, unsent, flushed, wtotal, src_buffer, src_pos,
              results, arrived, build>>

\* The stream right after construction: neither a datagram read nor a peer set.
DupInit ==
  /\ OwnIdle /\ SinkIdle /\ SrcIdle /\ SrvIdle /\ LaterIdle
  /\ udp \in UdpTransports
  /\ inq = <<>>
  /\ arrived = <<>>
  /\ wire = <<>>
  /\ build \in Builds
  /\ last_peer_ = "nullopt"
  /\ known_peer = "none"
  /\ known_via = "none"
  /\ last_write = NoWrite

\* A datagram of len bytes from the peer at address from reaches the socket,
\* which queues at most MaxDgrams of them.
DupArrive(from, len) ==
  /\ Len(inq) < MaxDgrams
  /\ udp.peer \in {"none", from}
  /\ inq' = Append(inq, [from |-> from, data |-> Payload(1, len)])
  /\ UNCHANGED <<wire, sink_buffer, last_peer_, known_peer, known_via, last_write>>
  /\ DupOnly

\* read(data, size) with a datagram queued (with none the call blocks).
DupRead(size) ==
  /\ inq # <<>>
  /\ LET r == DuplexDatagramStream_read(last_peer_, inq, size) IN
       /\ last_peer_' = r.peer
       /\ inq' = r.q
       /\ known_peer' = IF Len(r.ret) > 0 THEN Head(inq).from ELSE known_peer
       /\ known_via' = IF Len(r.ret) > 0 THEN "read" ELSE known_via
  /\ UNCHANGED <<wire, sink_buffer, last_write>>
  /\ DupOnly

\* read(data, size) whose recvfrom fails: the exception leaves the stream as it was.
DupReadThrows(size) ==
  /\ UNCHANGED <<inq, wire, sink_buffer, last_peer_, known_peer, known_via, last_write>>
  /\ DupOnly

DupWrite(size) ==
  /\ Len(wire) < MaxWrites
  /\ \E any \in EmptyOptionalReadsAs :
       LET r == DuplexDatagramStream_write(build, last_peer_, udp, wire, Data(0, size), any) IN
         /\ wire' = r.wire
         /\ last_write' = [made |-> TRUE, known |-> known_peer, via |-> known_via,
                           raised |-> r.raised, sent |-> r.sent,
                           dest |-> IF r.sent THEN r.wire[Len(r.wire)].to ELSE "none"]
  /\ UNCHANGED <<inq, sink_buffer, last_peer_, known_peer, known_via>>
  /\ DupOnly

DupSetPeer(addr) ==
  /\ last_peer_' = DuplexDatagramStream_set_peer(addr)
  /\ known_peer' = addr
  /\ known_via' = "set_peer"
  /\ UNCHANGED <<inq, wire, sink_buffer, last_write>>
  /\ DupOnly

\* flush(): sink_.flush()
DupFlush ==
  /\ LET r == DatagramSink_flush(sink_buffer, udp, wire) IN
       /\ sink_buffer' = r[1]
       /\ wire' = r[2]
  /\ UNCHANGED <<inq, last_peer_, known_peer, known_via, last_write>>
  /\ DupOnly

DupNext ==
  \/ \E from \in Addr, len \in {0, MaxLen} : DupArrive(from, len)
  \/ \E size \in 0..MaxRead : DupRead(size)
  \/ \E size \in 0..MaxRead : DupReadThrows(size)
  \/ \E size \in {0, MaxWrite} : DupWrite(size)
  \/ \E addr \in Addr : DupSetPeer(addr)
  \/ DupFlush

SpecDuplex == DupInit /\ [][DupNext]_vars

\* C3: once a read() has returned more than 0 bytes or set_peer() was called,
\* the stream remembers the address of the later of the two, and a plain
\* write() made then is sent to that address.
C3_WriteGoesToLatestPeer ==
  /\ known_peer # "none" => last_peer_ = known_peer
  /\ last_write.known # "none" =>
       last_write.sent /\ ~last_write.raised /\ last_write.dest = last_write.known

\* C4: a plain write() made while no peer is known raises and sends nothing.
C4_WriteWithoutPeerRaises ==
  last_write.known = "none" /\ last_write.made => last_write.raised /\ ~last_write.sent

\* C31: a write() through the stream sends nothing by itself: a datagram leaves
\* the socket only at flush(), and it is the one datagram that holds the bytes
\* the sink has buffered since the flush before.
C31_DuplexWriteFramesAtFlush ==
  [][ wire' # wire =>
        /\ sink_buffer # <<>>
        /\ sink_buffer' = <<>>
        /\ Len(wire') = Len(wire) + 1
        /\ wire'[Len(wire')].data = sink_buffer ]_vars

\* The received bytes a reader of the stream has still to get: what is left in
\* the source's buffer and the datagrams queued at the socket, in order.
PendingBytes ==
  [k \in 1..(src_buffer.size - src_pos) |-> ByteAt(src_buffer, src_pos + k)]
    \o Flatten([i \in DOMAIN inq |-> inq[i].data])

\* C32: a read() of size bytes through the stream takes at most size bytes from
\* the front of the received bytes and leaves every other one, in order, to
\* the reads that follow: the rest of a datagram longer than size is kept.
C32_DuplexReadKeepsRest ==
  [][ \A size \in 0..MaxRead :
        DupRead(size) =>
          \E k \in 0..size : PendingBytes' = SubSeq(PendingBytes, k + 1, Len(PendingBytes)) ]_vars

\* =====================================================================
\* run_server_with_executor: the accept loop, the handlers, the caller
\* =====================================================================
\* accept_timeout_ms_ is -1 (wait without limit) unless set_accept_timeout is
\* called; run_server_with_executor makes the server itself and never calls
\* it, so only a server that is configured by its type or by the stream
\* builder has 0 (poll).
AcceptTimeouts == {-1, 0}

\* TcpServer::accept: the ways a call can end while waiting connections are
\* queued. With none queued and no timeout the call does not end. (::accept
\* returning invalid_socket makes the call go round its loop again.)
TcpServer_accept(timeout, waiting) ==
  (IF waiting > 0 THEN {"client"} ELSE {})
    \cup (IF waiting = 0 /\ timeout >= 0 THEN {"accept timeout"} ELSE {})
    \cup {"select failed"}

\* What reading the caller's flag gives: its value while the caller keeps it,
\* and once the caller has destroyed it any value or a memory fault.
ReadRunning(flag, gone) ==
  IF gone THEN {"true", "false", "fault"} ELSE {IF flag THEN "true" ELSE "false"}

\* while (running)
LoopCondition(read) == read = "true"

\* tcp_stream_builder: the stream owns the client socket (and keeps the server)
tcp_stream_builder(thread, st) == [thread |-> thread, st |-> st, open |-> TRUE]

\* ThreadExecutor::execute: a detached thread of its own for the task
ThreadExecutor_execute(cs) == Append(cs, tcp_stream_builder("executor", "submitted"))

\* A variant of the loop body that builds the stream and hands on_client to nobody.
LoopAccepted_drops(b, cs) ==
  IF b = "net_io_adapters.ixx"
    THEN [pc |-> "check", conns |-> cs]
    ELSE [pc |-> "handler", conns |-> Append(cs, tcp_stream_builder("loop", "running"))]

\* The loop body after accept() returned a client. net_io_adapters.ixx hands
\* on_client to the executor and goes on; part_001 calls on_client itself.
LoopAccepted(b, cs) ==
  IF b = "net_io_adapters.ixx"
    THEN [pc |-> "check", conns |-> ThreadExecutor_execute(cs)]
    ELSE [pc |-> "handler", conns |-> Append(cs, tcp_stream_builder("loop", "running"))]

\* std::cerr << "[net_io_adapters] Error accepting connection: " << ex.what()
Logged(l, what) ==
  LET all == Append(l, what) IN IF Len(all) > MaxLog THEN Tail(all) ELSE all

\* catch (const std::exception& ex) { log } and round the loop again
LoopCatch_terminates(l, what) == [pc |-> "done", log |-> Logged(l, what)]

LoopCatch(l, what) == [pc |-> "check", log |-> Logged(l, what)]

\* The stream is destroyed when its handler is over: the client socket closes.
Finished(c) == [c EXCEPT !.st = "done", !.open = FALSE]

SrvOnly ==
  UNCHANGED <<ownVars, netVars, sinkVars, srcVars, laterVars, build, last_peer_, known_peer,
              known_via, last_write, accept_timeout_ms_>>

\* run_server_with_executor has returned: the server listens, the loop task is
\* with the executor, the caller holds the flag.
SrvInit ==
  /\ OwnIdle /\ NetIdle /\ SinkIdle /\ SrcIdle /\ LaterIdle
  /\ build \in Builds
  /\ last_peer_ = "nullopt"
  /\ known_peer = "none"
  /\ known_via = "none"
  /\ last_write = NoWrite
  /\ accept_timeout_ms_ \in AcceptTimeouts
  /\ running = TRUE
  /\ released = FALSE
  /\ pc = "check"
  /\ last = "none"
  /\ pending = 0
  /\ arrivals = 0
  /\ conns = <<>>
  /\ log = <<>>
  /\ accept_after_stop = FALSE

\* while (running): the flag is read, and accept() is called or the loop ends.
LoopCheck ==
  /\ pc = "check"
  /\ \E v \in ReadRunning(running, released) :
       IF v = "fault"
         THEN pc' = "crashed" /\ last' = "fault" /\ UNCHANGED accept_after_stop
         ELSE IF LoopCondition(v)
                THEN /\ pc' = "accept"
                     /\ last' = "read true"
                     /\ accept_after_stop' = (accept_after_stop \/ ~running)
                ELSE pc' = "done" /\ last' = "read false" /\ UNCHANGED accept_after_stop
  /\ UNCHANGED <<running, released, pending, arrivals, conns, log>>
  /\ SrvOnly

\* accept() returns a client; the stream is built and the handler dispatched.
AcceptReturns ==
  /\ pc = "accept"
  /\ "client" \in TcpServer_accept(accept_timeout_ms_, pending)
  /\ pending' = pending - 1
  /\ LET r == LoopAccepted(build, conns) IN pc' = r.pc /\ conns' = r.conns
  /\ last' = "client"
  /\ UNCHANGED <<running, released, arrivals, log, accept_after_stop>>
  /\ SrvOnly

\* accept() raises what, the loop's catch takes it.
AcceptRaises(what) ==
  /\ pc = "accept"
  /\ what \in TcpServer_accept(accept_timeout_ms_, pending) \ {"client"}
  /\ LET r == LoopCatch(log, what) IN pc' = r.pc /\ log' = r.log
  /\ last' = "raise"
  /\ UNCHANGED <<running, released, pending, arrivals, conns, accept_after_stop>>
  /\ SrvOnly

\* part_001: on_client, called by the loop, returns.
InlineHandlerReturns ==
  /\ pc = "handler"
  /\ conns' = [conns EXCEPT ![Len(conns)] = Finished(@)]
  /\ pc' = "check"
  /\ last' = "handler returned"
  /\ UNCHANGED <<running, released, pending, arrivals, log, accept_after_stop>>
  /\ SrvOnly

\* part_001: on_client, called by the loop, throws into the loop's catch.
InlineHandlerThrows ==
  /\ pc = "handler"
  /\ conns' = [conns EXCEPT ![Len(conns)] = Finished(@)]
  /\ LET r == LoopCatch(log, "handler failed") IN pc' = r.pc /\ log' = r.log
  /\ last' = "handler raised"
  /\ UNCHANGED <<running, released, pending, arrivals, accept_after_stop>>
  /\ SrvOnly

\* The executor's thread for connection i starts on_client.
HandlerStarts(i) ==
  /\ pc # "crashed"
  /\ conns[i].thread = "executor" /\ conns[i].st = "submitted"
  /\ conns' = [conns EXCEPT ![i].st = "running"]
  /\ UNCHANGED <<running, released, pc, last, pending, arrivals, log, accept_after_stop>>
  /\ SrvOnly

\* on_client returns on the executor's thread.
HandlerReturns(i) ==
  /\ pc # "crashed"
  /\ conns[i].thread = "executor" /\ conns[i].st = "running"
  /\ conns' = [conns EXCEPT ![i] = Finished(@)]
  /\ UNCHANGED <<running, released, pc, last, pending, arrivals, log, accept_after_stop>>
  /\ SrvOnly

\* on_client throws on the executor's thread: the exception leaves the thread's
\* function, std::terminate is called and the process ends.
HandlerThrows(i) ==
  /\ pc # "crashed"
  /\ conns[i].thread = "executor" /\ conns[i].st = "running"
  /\ pc' = "crashed"
  /\ last' = "terminate"
  /\ UNCHANGED <<running, released, pending, arrivals, conns, log, accept_after_stop>>
  /\ SrvOnly

\* A peer connects to the listening socket.
Connect ==
  /\ arrivals < MaxConns
  /\ arrivals' = arrivals + 1
  /\ pending' = pending + 1
  /\ UNCHANGED <<running, released, pc, last, conns, log, accept_after_stop>>
  /\ SrvOnly

\* The caller: running = false;
SetRunningFalse ==
  /\ running /\ ~released
  /\ running' = FALSE
  /\ UNCHANGED <<released, pc, last, pending, arrivals, conns, log, accept_after_stop>>
  /\ SrvOnly

\* The caller returns: its locals running and exec are destroyed.
CallerReturns ==
  /\ ~running /\ ~released
  /\ released' = TRUE
  /\ UNCHANGED <<running, pc, last, pending, arrivals, conns, log, accept_after_stop>>
  /\ SrvOnly

\* The steps the loop's thread takes by itself when they are possible.
LoopRuns ==
  \/ LoopCheck
  \/ AcceptReturns
  \/ AcceptRaises("accept timeout")

SrvNext ==
  \/ LoopCheck
  \/ AcceptReturns
  \/ \E what \in {"accept timeout", "select failed"} : AcceptRaises(what)
  \/ InlineHandlerReturns
  \/ InlineHandlerThrows
  \/ \E i \in DOMAIN conns : HandlerStarts(i)
  \/ \E i \in DOMAIN conns : HandlerReturns(i)
  \/ \E i \in DOMAIN conns : HandlerThrows(i)
  \/ Connect
  \/ SetRunningFalse
  \/ CallerReturns

SpecServer == SrvInit /\ [][SrvNext]_vars

\* The loop's thread is scheduled: a step it can take is taken. Nothing makes
\* a peer connect, a handler return or a system call fail.
SpecServerFair == SrvInit /\ [][SrvNext]_vars /\ WF_vars(LoopRuns)

\* C7: the handler of an accepted connection runs on a thread of the
\* executor, never on the accept loop, which goes on to its next flag check
\* without waiting for any handler.
C7_HandlerNeverOnAcceptLoop ==
  /\ pc # "handler"
  /\ \A i \in DOMAIN conns : conns[i].thread = "executor"

\* C8: when accept() raises in the loop the error is logged, no handler is
\* dispatched for it and the loop polls the flag next; the loop ends only by
\* reading the flag as false.
C8_AcceptErrorLoggedLoopContinues ==
  [][ /\ (pc = "accept" /\ last' = "raise") =>
           /\ pc' = "check"
           /\ conns' = conns
           /\ log' # <<>>
           /\ log'[Len(log')] \in {"accept timeout", "select failed"}
      /\ (pc # "done" /\ pc' = "done") => (pc = "check" /\ last' = "read false")
    ]_vars

\* A server with a 0 ms timeout saw no connection, accept() raised the
\* timeout, it was logged and the loop polled the flag and called accept() again.
C8_Witness ==
  /\ accept_timeout_ms_ = 0
  /\ arrivals = 0
  /\ log = <<"accept timeout">>
  /\ last = "read true" /\ pc = "accept"
  /\ conns = <<>>

\* C9: after running was set to false no accept() call is started (the one
\* in progress at that moment is the only one), and the streams of handlers
\* that are not yet over stay open.
C9_NoNewAcceptAfterStop ==
  /\ ~running => ~accept_after_stop
  /\ \A i \in DOMAIN conns : conns[i].st # "done" => conns[i].open

\* C10: once running is false the accept loop comes to its end, also when no
\* connection arrives any more.
C10_LoopEndsAfterStop == (~running) ~> (pc \in {"done", "crashed"})

\* The thread the executor made for a handler is scheduled: a handler that was
\* handed to the executor starts.
SpecServerDispatchFair ==
  SpecServer /\ \A i \in 1..MaxConns : WF_vars(i \in DOMAIN conns /\ HandlerStarts(i))

\* What a step of the loop and of the handlers does to the streams.
DispatchStep ==
  /\ (pc = "accept" /\ last' = "client") =>
       /\ Len(conns') = Len(conns) + 1
       /\ conns'[Len(conns')].open
       /\ conns'[Len(conns')].st = (IF build = "part_001" THEN "running" ELSE "submitted")
       /\ \A i \in DOMAIN conns : conns'[i] = conns[i]
  /\ (pc = "accept" /\ last' = "raise") => conns' = conns
  /\ Len(conns') >= Len(conns)
  /\ \A i \in DOMAIN conns :
       /\ conns[i].st = "running" => conns'[i].st \in {"running", "done"}
       /\ conns[i].st = "done" => conns'[i] = conns[i]

LoopUsesCallersObjects ==
  \/ pc = "check" /\ pc' # "check"
  \/ pc = "accept" /\ last' = "client" /\ build = "net_io_adapters.ixx"

\* C35: the accept loop neither reads the running flag nor uses the executor
\* once the caller has returned and destroyed them.
C35_LoopLeavesDestroyedObjectsAlone ==
  [][LoopUsesCallersObjects => ~released]_vars

\* C36: a step in which the handler of a connection throws ends neither the
\* accept loop nor the process: the loop is where it was, or at its next test
\* of the flag.
C36_HandlerExceptionLeavesLoopRunning ==
  [][ (last' # last /\ last' \in {"handler raised", "terminate"}) =>
        /\ pc' # "crashed"
        /\ pc' = pc \/ pc' = "check" ]_vars

\* =====================================================================
\* TcpServer: start(), set_accept_timeout(), accept(), stop()
\* =====================================================================
\* What start() can meet with one address of getaddrinfo's list: ::socket
\* fails, ::bind fails, ::listen fails, or the socket listens.
AddrOutcomes == {"socket", "bind", "listen", "ok"}

\* getaddrinfo for one address family: it fails, or gives a list of addresses.
FamilyOutcomes ==
  {[ok |-> FALSE, addrs |-> <<>>]}
    \cup {[ok |-> TRUE, addrs |-> a] : a \in UNION {[1..n -> AddrOutcomes] : n \in 1..MaxAddrs}}

\* The body of start()'s inner for loop for one address.
StartAddr(fds, o, outcome) ==
  CASE outcome = "socket" -> [fds |-> fds, os |-> o]
    [] outcome \in {"bind", "listen"} -> [fds |-> fds, os |-> OsClose(OsSocket(o), o.next)]
    [] outcome = "ok" -> [fds |-> Append(fds, o.next), os |-> OsSocket(o)]

RECURSIVE StartAddrs(_, _, _)
StartAddrs(fds, o, addrs) ==
  IF addrs = <<>> THEN [fds |-> fds, os |-> o]
  ELSE LET r == StartAddr(fds, o, Head(addrs)) IN StartAddrs(r.fds, r.os, Tail(addrs))

\* start()'s outer for loop over the families that are left, and its end.
RECURSIVE StartFamilies(_, _, _)
StartFamilies(fds, o, fams) ==
  IF fams = <<>>
    THEN [fds |-> fds, os |-> o,
          raised |-> IF fds = <<>> THEN "Failed to bind any socket" ELSE "none"]
  ELSE IF ~Head(fams).ok
    THEN [fds |-> fds, os |-> o, raised |-> "getaddrinfo failed"]
  ELSE LET r == StartAddrs(fds, o, Head(fams).addrs) IN StartFamilies(r.fds, r.os, Tail(fams))

\* TcpServer::start; fams is what AF_INET and AF_INET6 meet with, in this order.
TcpServer_start(fds, o, fams) == StartFamilies(fds, o, fams)

\* The number of sockets a start() call creates.
RECURSIVE CreatedIn(_)
CreatedIn(addrs) ==
  IF addrs = <<>> THEN 0
  ELSE (IF Head(addrs) = "socket" THEN 0 ELSE 1) + CreatedIn(Tail(addrs))

RECURSIVE SocketsCreated(_)
SocketsCreated(fams) ==
  IF fams = <<>> \/ ~Head(fams).ok THEN 0
  ELSE CreatedIn(Head(fams).addrs) + SocketsCreated(Tail(fams))

\* TcpServer::set_accept_timeout
TcpServer_set_accept_timeout(ms) == ms

\* accept(): timeval* tvptr, set when accept_timeout_ms_ >= 0
Tvptr(timeout) == IF timeout >= 0 THEN "tv" ELSE "nullptr"

\* ::select on the listening sockets while waiting connections are queued:
\* -1 it failed, 1 a socket is ready, 0 the time ran out with no socket ready
\* (which does not happen without a timeval).
OsSelect(tvptr, waiting) ==
  {-1} \cup (IF waiting > 0 THEN {1} ELSE IF tvptr = "tv" THEN {0} ELSE {})

\* ::accept on a ready socket: a connection, or invalid_socket (the peer has
\* gone meanwhile).
OsAccept == {"fd", "invalid_socket"}

\* One round of accept()'s while (true), after select returned ready and, for
\* a ready socket, ::accept returned client_fd.
TcpServer_accept_round_positive(timeout, ready, client_fd) ==
  IF ready < 0 THEN "select failed"
  ELSE IF ready = 0 /\ timeout > 0 THEN "accept timeout"
  ELSE IF ready > 0 /\ client_fd # "invalid_socket" THEN "client"
  ELSE "again"

TcpServer_accept_round(timeout, ready, client_fd) ==
  IF ready < 0 THEN "select failed"
  ELSE IF ready = 0 /\ timeout >= 0 THEN "accept timeout"
  ELSE IF ready > 0 /\ client_fd # "invalid_socket" THEN "client"
  ELSE "again"

TsOnly ==
  UNCHANGED <<netVars, sinkVars, srcVars, dupVars, exceptTs, obj, lastCall, again, first_closed, reopened,
              running, released, pc, last, conns, log, accept_after_stop>>

\* A server that was constructed and not started.
TsInit ==
  /\ OwnIdle /\ NetIdle /\ SinkIdle /\ SrcIdle /\ DupIdle /\ SrvIdle /\ LaterIdle

TsStart(fams) ==
  /\ acall = "idle"
  /\ FreshAvailable(SocketsCreated(fams))
  /\ LET r == TcpServer_start(listen_fds_, os, fams) IN
       /\ listen_fds_' = r.fds
       /\ os' = r.os
       /\ sresult' = [called |-> TRUE, raised |-> r.raised,
                      bound |-> Len(r.fds) - Len(listen_fds_), held |-> Len(r.fds)]
  /\ UNCHANGED <<accept_timeout_ms_, pending, arrivals, acall, around, configured>>
  /\ TsOnly

\* stop(): the connections that wait on the listening sockets go with them.
TsStop ==
  /\ acall = "idle"
  /\ LET r == stop(listen_fds_, os) IN
       /\ listen_fds_' = r[1]
       /\ os' = r[2]
  /\ pending' = 0
  /\ UNCHANGED <<accept_timeout_ms_, arrivals, acall, around, configured, sresult>>
  /\ TsOnly

TsSetAcceptTimeout(ms) ==
  /\ acall = "idle"
  /\ accept_timeout_ms_' = TcpServer_set_accept_timeout(ms)
  /\ configured' = [set |-> TRUE, ms |-> ms]
  /\ UNCHANGED <<os, listen_fds_, pending, arrivals, acall, around, sresult>>
  /\ TsOnly

\* accept() is called and waits in select.
TsAcceptCall ==
  /\ acall = "idle"
  /\ acall' = "select"
  /\ UNCHANGED <<os, listen_fds_, accept_timeout_ms_, pending, arrivals, around, configured,
                 sresult>>
  /\ TsOnly

\* select returns, and the round of accept()'s loop it belongs to is run.
TsAcceptRound(ready, client_fd) ==
  /\ acall = "select"
  /\ ready \in OsSelect(Tvptr(accept_timeout_ms_), pending)
  /\ ready > 0 \/ client_fd = "invalid_socket"
  /\ LET how == TcpServer_accept_round(accept_timeout_ms_, ready, client_fd) IN
       /\ around' = [how |-> how, ready |-> ready, cfg |-> configured]
       /\ acall' = IF how = "again" THEN "select" ELSE "idle"
  /\ pending' = IF ready > 0 THEN pending - 1 ELSE pending
  /\ UNCHANGED <<os, listen_fds_, accept_timeout_ms_, arrivals, configured, sresult>>
  /\ TsOnly

\* A peer connects to a listening socket.
TsConnect ==
  /\ listen_fds_ # <<>>
  /\ arrivals < MaxConns
  /\ arrivals' = arrivals + 1
  /\ pending' = pending + 1
  /\ UNCHANGED <<os, listen_fds_, accept_timeout_ms_, acall, around, configured, sresult>>
  /\ TsOnly

TsNext ==
  \/ \E v4 \in FamilyOutcomes, v6 \in FamilyOutcomes : TsStart(<<v4, v6>>)
  \/ TsStop
  \/ \E ms \in -1..MaxTimeout : TsSetAcceptTimeout(ms)
  \/ TsAcceptCall
  \/ \E ready \in -1..1, client_fd \in OsAccept : TsAcceptRound(ready, client_fd)
  \/ TsConnect

SpecTcpServer == TsInit /\ [][TsNext]_vars

\* C11: a round of accept() ends with the timeout error exactly when a
\* timeout >= 0 was configured with set_accept_timeout and the wait ran out
\* with no socket ready; without such a timeout the wait never runs out and the
\* call ends only with a connection (or with select's failure).
C11_TimeoutIffConfiguredAndExpired ==
  LET timed == around.cfg.set /\ around.cfg.ms >= 0 IN
  /\ around.how = "accept timeout" <=> (timed /\ around.ready = 0)
  /\ ~timed => around.ready # 0
  /\ (~timed /\ acall = "idle") => around.how \in {"none", "client", "select failed"}

\* A server told to wait 0 ms found no connection and raised the timeout.
C11_Witness ==
  /\ around.how = "accept timeout"
  /\ around.cfg = [set |-> TRUE, ms |-> 0]
  /\ listen_fds_ # <<>>

\* C19: a start() that returns normally has bound at least one listening
\* socket and leaves the server with at least one; a start() that could bind
\* none raises.
C19_StartBindsOrRaises ==
  sresult.called =>
    /\ sresult.raised = "none" => (sresult.bound >= 1 /\ sresult.held >= 1)
    /\ sresult.bound = 0 => sresult.raised # "none"

\* Some address family of fams has an address on which socket, bind and listen succeed.
CanBind(fams) == \E i \in DOMAIN fams : fams[i].ok /\ "ok" \in Range(fams[i].addrs)

\* C28: start() raises only when no listening socket could be bound at all: a
\* start() that raises has bound none, and a start() for which one address
\* family can bind and listen returns normally whatever fails for the other.
C28_StartRaisesOnlyWhenNothingBound ==
  [][ \A v4 \in FamilyOutcomes, v6 \in FamilyOutcomes :
        TsStart(<<v4, v6>>) =>
          /\ sresult'.raised # "none" => sresult'.bound = 0
          /\ CanBind(<<v4, v6>>) => sresult'.raised = "none" ]_vars

\* =====================================================================
\* SharedStream and the factories make_shared_stream,
\* make_shared_stream_for_server, tcp_stream_builder (part_001: make_stream)
\* =====================================================================
Copies == 1..MaxCopies

\* The factories each copy of net_io_adapters has.
Factories(b) ==
  IF b = "net_io_adapters.ixx"
    THEN {"make_shared_stream (TCP)", "make_shared_stream (UDP)",
          "make_shared_stream_for_server", "tcp_stream_builder"}
    ELSE {"make_stream (TCP)", "make_stream (UDP)", "tcp_stream_builder"}

\* The transport a factory makes, before it is opened. tcp_stream_builder is
\* given the client that accept() returned (its socket is o.next).
FactoryTransport(factory, o) ==
  CASE factory \in {"make_shared_stream (TCP)", "make_stream (TCP)"} -> TcpClient_from_ep
    [] factory = "tcp_stream_builder" -> TcpClient_from_fd(o.next)
    [] OTHER -> UdpTransport_default

\* The ways the factory's open call can end.
FactoryOpenOutcomes(factory) ==
  CASE factory \in {"make_shared_stream (TCP)", "make_stream (TCP)"} ->
         TcpOpenOutcomes(TcpClient_from_ep)
    [] factory = "tcp_stream_builder" -> {"ok"}
    [] factory = "make_shared_stream_for_server" -> UdpOpenOutcomes \ {"connect"}
    [] OTHER -> UdpOpenOutcomes

\* client->open() / udp->open_connect(ep) / udp->open_bind(ep) in the factory.
FactoryOpen(factory, t, o, outcome) ==
  CASE factory \in {"make_shared_stream (TCP)", "make_stream (TCP)"} -> TcpClient_open(t, o, outcome)
    [] factory = "tcp_stream_builder" -> <<t, OsSocket(o)>>
    [] OTHER -> UdpTransport_open(t, o, outcome)

\* The shared_ptr copies of the transport that are members of the stream
\* object: the keepalive member, and in part_001 the t_ of the source and of
\* the sink (net_io_adapters.ixx: they hold references).
Keeps_nothing(b, factory) == {}

Keeps(b, factory) ==
  IF b = "net_io_adapters.ixx"
    THEN IF factory = "tcp_stream_builder" THEN {"keepalive_client_"} ELSE {"keepalive_"}
    ELSE {"src_.t_", "sink_.t_"}
           \cup (IF factory = "tcp_stream_builder" THEN {"keepalive_client_"} ELSE {})

\* The shared_ptr copies of the transport outside the stream object when the
\* factory has returned: the accept loop's local client; the factories' own
\* locals are gone by then.
Locals(factory) == IF factory = "tcp_stream_builder" THEN {"client"} ELSE {}

\* ~SharedStream for copy h: the stream object goes with its last copy, and
\* its members with it.
SharedStream_destroy(s, keeps, h) ==
  LET hs == s.holders \ {h} IN
  [s EXCEPT !.holders = hs, !.trefs = IF hs = {} THEN @ \ keeps ELSE @]

\* shared_ptr<Transport>: the transport is destroyed with its last owner:
\* <<object after, OS after>>.
TransportAfter(trefs, t, o) ==
  IF trefs = {} /\ t.st = "live" THEN <<NoObject, close(t, o)[2]>> ELSE <<t, o>>

ShOnly ==
  UNCHANGED <<netVars, sinkVars, srcVars, srvVars, exceptSh, listen_fds_, lastCall, again,
              first_closed, reopened, last_peer_, known_peer, known_via, last_write, build>>

ShInit ==
  /\ OwnIdle /\ NetIdle /\ SinkIdle /\ SrcIdle /\ SrvIdle /\ LaterIdle
  /\ build \in Builds
  /\ last_peer_ = "nullopt"
  /\ known_peer = "none"
  /\ known_via = "none"
  /\ last_write = NoWrite

\* A factory is called. When its open call raises, the factory's local
\* shared_ptr destroys the transport and there is no stream.
ShMake(factory, outcome) ==
  /\ factory \in Factories(build)
  /\ outcome \in FactoryOpenOutcomes(factory)
  /\ sh.holders = {} /\ sh.trefs = {}
  /\ FreshAvailable(1)
  /\ LET r == FactoryOpen(factory, FactoryTransport(factory, os), os, outcome) IN
       IF outcome = "ok"
         THEN LET owners == Keeps(build, factory) \cup Locals(factory)
                  a == TransportAfter(owners, r[1], r[2]) IN
              /\ obj' = [obj EXCEPT ![1] = a[1]]
              /\ os' = a[2]
              /\ sh' = [made |-> TRUE, factory |-> factory, holders |-> {1},
                        trefs |-> owners, fd |-> r[1].fd_, peak |-> 1]
         ELSE /\ os' = close(r[1], r[2])[2]
              /\ UNCHANGED <<obj, sh>>
  /\ ShOnly

\* A copy of the SharedStream is made (an input-role and an output-role
\* handle, the capture of a handler task).
ShCopy(h, c) ==
  /\ h \in sh.holders /\ c \notin sh.holders
  /\ sh' = [sh EXCEPT !.holders = @ \cup {c},
                      !.peak = IF Cardinality(sh.holders) + 1 > @
                                 THEN Cardinality(sh.holders) + 1 ELSE @]
  /\ UNCHANGED <<obj, os>>
  /\ ShOnly

\* A SharedStream is moved: the pointer changes hands.
ShMove(h, c) ==
  /\ h \in sh.holders /\ c \notin sh.holders
  /\ "client" \in sh.trefs => h # 1
  /\ sh' = [sh EXCEPT !.holders = (@ \ {h}) \cup {c}]
  /\ UNCHANGED <<obj, os>>
  /\ ShOnly

\* A copy is destroyed.
ShDrop(h) ==
  /\ h \in sh.holders
  /\ "client" \in sh.trefs => h # 1
  /\ LET s == SharedStream_destroy(sh, Keeps(build, sh.factory), h)
         r == TransportAfter(s.trefs, obj[1], os) IN
       /\ sh' = s
       /\ obj' = [obj EXCEPT ![1] = r[1]]
       /\ os' = r[2]
  /\ ShOnly

\* The accept loop leaves its try block: its locals stream and client are
\* destroyed, in this order.
ShLoopScopeEnds ==
  /\ "client" \in sh.trefs
  /\ LET s == SharedStream_destroy(sh, Keeps(build, sh.factory), 1)
         t == s.trefs \ {"client"}
         r == TransportAfter(t, obj[1], os) IN
       /\ sh' = [s EXCEPT !.trefs = t]
       /\ obj' = [obj EXCEPT ![1] = r[1]]
       /\ os' = r[2]
  /\ ShOnly

ShNext ==
  \/ \E factory \in Factories("net_io_adapters.ixx") \cup Factories("part_001"),
        outcome \in UdpOpenOutcomes : ShMake(factory, outcome)
  \/ \E h \in Copies, c \in Copies : ShCopy(h, c)
  \/ \E h \in Copies, c \in Copies : ShMove(h, c)
  \/ \E h \in Copies : ShDrop(h)
  \/ ShLoopScopeEnds

SpecShared == ShInit /\ [][ShNext]_vars

\* C12: while a copy of the stream exists its socket is open and held by the
\* transport; when the last copy is gone (and the accept loop has left the
\* iteration that made the stream) the socket has been closed, and no socket
\* is ever closed twice.
C12_SocketLivesWithLastCopy ==
  /\ (sh.made /\ sh.holders # {}) =>
       (obj[1].st = "live" /\ obj[1].fd_ = sh.fd /\ os.closes[sh.fd] = 0)
  /\ (sh.made /\ sh.holders = {} /\ "client" \notin sh.trefs) => os.closes[sh.fd] = 1
  /\ \A h \in Handles : os.closes[h] <= 1

\* A stream had MaxCopies copies at a time; all are gone and its socket closed.
C12_Witness ==
  /\ sh.made /\ sh.peak = MaxCopies /\ sh.holders = {}
  /\ os.closes[sh.fd] = 1

\* =====================================================================
\* DuplexDatagramStream: threads, mtx_ and last_peer_
\* =====================================================================
\* last_peer_ is an optional pair (address, length). The stores to it are
\* numbered, and each half of the pair holds the number of the store that wrote
\* it: a pair is whole when its halves hold the same number. 0 stands for bytes
\* that no store wrote.
Threads == 1..NThreads
Stores == 1..MaxStores

PeerOps == {"read", "write", "set_peer", "get_peer"}

\* std::lock_guard<std::mutex> lock(mtx_): the thread goes on when the mutex is free.
lock_guard(m, t) == [free |-> m = 0, m |-> t]

\* The first step of each member function after the lock is taken.
Body(op) ==
  CASE op = "read" -> "recv"
    [] op = "write" -> "check"
    [] op = "set_peer" -> "store first"
    [] op = "get_peer" -> "check"

\* if (!last_peer_) throw ...; in part_001 the two lines are commented out.
write_checks(b) == b = "net_io_adapters.ixx"

\* What a half of the pair reads as: the value in it, or anything at all when
\* the optional is empty.
HalfReads(p, half) == IF p.engaged THEN {half} ELSE 0..MaxStores

PeerOnly ==
  UNCHANGED <<ownVars, sinkVars, srcVars, srvVars, exceptPeer, udp, arrived, wire, build,
              last_peer_, known_peer, known_via, last_write>>

PeerInit ==
  /\ OwnIdle /\ SinkIdle /\ SrcIdle /\ SrvIdle /\ LaterIdle
  /\ udp = [file |-> "udp_transport.ixx", isBoundLocal |-> FALSE, peer |-> "none"]
  /\ inq = <<>>
  /\ arrived = <<>>
  /\ wire = <<>>
  /\ build \in Builds
  /\ last_peer_ = "nullopt"
  /\ known_peer = "none"
  /\ known_via = "none"
  /\ last_write = NoWrite

\* The threads that are in a call that may store to last_peer_.
Storing == {u \in Threads : thr[u].op \in {"read", "set_peer"} /\ thr[u].pc # "idle"}

\* Thread t calls read(), write(), set_peer() or get_peer().
PeerCall(t, op) ==
  /\ thr[t].pc = "idle"
  /\ op \in {"read", "set_peer"} => stored + Cardinality(Storing) < MaxStores
  /\ thr' = [thr EXCEPT ![t] = [op |-> op, pc |-> "lock", first |-> 0, second |-> 0]]
  /\ UNCHANGED <<mtx_, pair, stored, used, inq>>
  /\ PeerOnly

PeerLock(t) ==
  /\ thr[t].pc = "lock"
  /\ lock_guard(mtx_, t).free
  /\ mtx_' = lock_guard(mtx_, t).m
  /\ thr' = [thr EXCEPT ![t].pc = Body(thr[t].op)]
  /\ UNCHANGED <<pair, stored, used, inq>>
  /\ PeerOnly

\* The lock_guard's destructor, at the end of the function.
PeerUnlock(t) ==
  /\ thr[t].pc = "unlock"
  /\ mtx_' = IF mtx_ = t THEN 0 ELSE mtx_
  /\ thr' = [thr EXCEPT ![t].pc = "idle"]
  /\ UNCHANGED <<pair, stored, used, inq>>
  /\ PeerOnly

\* A datagram of len bytes reaches the socket.
PeerArrive(len) ==
  /\ Len(inq) < MaxDgrams
  /\ inq' = Append(inq, [from |-> "A", data |-> Payload(1, len)])
  /\ UNCHANGED <<mtx_, thr, pair, stored, used>>
  /\ PeerOnly

\* read(): src_.read returns n bytes of the oldest datagram; n > 0 leads to
\* the assignment of last_peer_.
PeerRecv(t, size) ==
  /\ thr[t].op = "read" /\ thr[t].pc = "recv"
  /\ inq # <<>>
  /\ LET got == DatagramSource_read_from(inq, size) IN
       /\ inq' = got.q
       /\ thr' = [thr EXCEPT ![t].pc = IF got.n > 0 THEN "store first" ELSE "unlock"]
  /\ UNCHANGED <<mtx_, pair, stored, used>>
  /\ PeerOnly

\* read(): src_.read raises; the lock_guard is released on the way out.
PeerRecvThrows(t) ==
  /\ thr[t].op = "read" /\ thr[t].pc = "recv"
  /\ thr' = [thr EXCEPT ![t].pc = "unlock"]
  /\ UNCHANGED <<mtx_, pair, stored, used, inq>>
  /\ PeerOnly

\* last_peer_ = std::make_pair(...): the address is written, then the length.
PeerStoreFirst(t) ==
  /\ thr[t].pc = "store first"
  /\ stored' = stored + 1
  /\ pair' = [pair EXCEPT !.first = stored + 1]
  /\ thr' = [thr EXCEPT ![t].pc = "store second", ![t].first = stored + 1]
  /\ UNCHANGED <<mtx_, used, inq>>
  /\ PeerOnly

PeerStoreSecond(t) ==
  /\ thr[t].pc = "store second"
  /\ pair' = [pair EXCEPT !.second = thr[t].first, !.engaged = TRUE]
  /\ thr' = [thr EXCEPT ![t].pc = "unlock"]
  /\ UNCHANGED <<mtx_, stored, used, inq>>
  /\ PeerOnly

\* write(): the test of last_peer_ (where there is one); get_peer(): the
\* copy of an empty optional is empty.
PeerCheck(t) ==
  /\ thr[t].pc = "check"
  /\ thr' = [thr EXCEPT ![t].pc =
       IF pair.engaged \/ (thr[t].op = "write" /\ ~write_checks(build))
         THEN "load first" ELSE "unlock"]
  /\ UNCHANGED <<mtx_, pair, stored, used, inq>>
  /\ PeerOnly

\* last_peer_->first is read.
PeerLoadFirst(t) ==
  /\ thr[t].pc = "load first"
  /\ \E v \in HalfReads(pair, pair.first) :
       thr' = [thr EXCEPT ![t].pc = "load second", ![t].first = v]
  /\ UNCHANGED <<mtx_, pair, stored, used, inq>>
  /\ PeerOnly

\* last_peer_->second is read; write() sends to the pair, get_peer() returns it.
PeerLoadSecond(t) ==
  /\ thr[t].pc = "load second"
  /\ \E v \in HalfReads(pair, pair.second) :
       /\ thr' = [thr EXCEPT ![t].pc = "unlock", ![t].second = v]
       /\ used' = [by |-> thr[t].op, first |-> thr[t].first, second |-> v]
  /\ UNCHANGED <<mtx_, pair, stored, inq>>
  /\ PeerOnly

PeerNext ==
  \/ \E t \in Threads, op \in PeerOps : PeerCall(t, op)
  \/ \E t \in Threads : PeerLock(t)
  \/ \E t \in Threads : PeerUnlock(t)
  \/ \E len \in {0, MaxLen} : PeerArrive(len)
  \/ \E t \in Threads, size \in 1..MaxRead : PeerRecv(t, size)
  \/ \E t \in Threads : PeerRecvThrows(t)
  \/ \E t \in Threads : PeerStoreFirst(t)
  \/ \E t \in Threads : PeerStoreSecond(t)
  \/ \E t \in Threads : PeerCheck(t)
  \/ \E t \in Threads : PeerLoadFirst(t)
  \/ \E t \in Threads : PeerLoadSecond(t)

SpecPeer == PeerInit /\ [][PeerNext]_vars

\* C13: the pair a write() sends to, or a get_peer() returns, was stored
\* whole by one read() or set_peer(): both halves are of the same store, and
\* of a store that was made.
C13_PeerPairIsWhole ==
  used.by # "none" =>
    /\ used.first = used.second
    /\ used.first \in 1..stored

\* C34: a thread in write(), set_peer() or get_peer() never waits for mtx_
\* while the thread that holds it is inside read() waiting for a datagram that
\* has not arrived: its call ends without an incoming datagram.
C34_CallersNeverWaitForReader ==
  \A t \in Threads, u \in Threads :
    ~ /\ thr[u].pc = "lock"
      /\ thr[u].op \in {"write", "set_peer", "get_peer"}
      /\ mtx_ = t
      /\ thr[t].op = "read"
      /\ thr[t].pc = "recv"
      /\ inq = <<>>

\* =====================================================================
\* DataOutputStream / DataInputStream: the length-prefixed string
\* =====================================================================
Orders == {"big", "little"}
Chars == {80, 73}
Strings == UNION {[1..n -> Chars] : n \in 0..MaxStr}

\* (v >> 8 * k) & 0xFF; the shift of a negative v keeps the sign, as \div does
ByteOf(v, k) == (v \div 2^(8 * k)) % 256

\* DataOutputStream::write_int32: the four bytes handed to sink_.write
DataOutputStream_write_int32(order, v) ==
  IF order = "big"
    THEN <<ByteOf(v, 3), ByteOf(v, 2), ByteOf(v, 1), ByteOf(v, 0)>>
    ELSE <<ByteOf(v, 0), ByteOf(v, 1), ByteOf(v, 2), ByteOf(v, 3)>>

\* DataOutputStream::write_string: the writes it makes on the sink, in order.
DataOutputStream_write_string(order, s) ==
  <<DataOutputStream_write_int32(order, Len(s)), s>>

\* DataInputStream::read_bytes: std::vector<std::byte> buf(n) after
\* source_.read has put got at its front; the rest is value-initialized.
ReadBuffer(got, n) == got \o [k \in 1..(n - Len(got)) |-> 0]

\* DataInputStream::read_bytes after source_.read returned got: the exception
\* it throws, or "none".
DataInputStream_read_bytes_pads(got, n) == "none"

DataInputStream_read_bytes(got, n) ==
  IF Len(got) # n THEN "Unexpected EOF" ELSE "none"

\* A variant that reads the four bytes least significant first, whatever
\* order_ is.
DataInputStream_read_int32_native(order, b) ==
  LET top == IF b[4] >= 128 THEN b[4] - 256 ELSE b[4]
  IN top * 2^24 + b[3] * 2^16 + b[2] * 2^8 + b[1]

\* DataInputStream::read_int32 on the four bytes read; the top byte carries
\* the sign of the int32_t.
DataInputStream_read_int32(order, b) ==
  LET p == IF order = "big" THEN b ELSE <<b[4], b[3], b[2], b[1]>>
      top == IF p[1] >= 128 THEN p[1] - 256 ELSE p[1]
  IN top * 2^24 + p[2] * 2^16 + p[3] * 2^8 + p[4]

\* DataInputStream::read_string after read_int32: the check of the length.
DataInputStream_read_string_check(len) ==
  IF len < 0 THEN "Invalid string length" ELSE "none"

\* =====================================================================
\* The UDP exchange of main.cpp: make_shared_stream(UdpEndpoint) against
\* make_shared_stream_for_server
\* =====================================================================
Sides == {"client", "server"}
ClientAddr == "A"
ServerAddr == "B"
Other(side) == IF side = "client" THEN "server" ELSE "client"
AddrOf(side) == IF side = "client" THEN ClientAddr ELSE ServerAddr

\* The copies of UdpTransport.
UdpFiles == {"udp_transport.ixx", "part_000"}

\* UdpTransport::open_bind: bind, no connect; part_000 keeps ep.bind_local.
UdpTransport_open_bind(file, bind_local) ==
  [file |-> file, isBoundLocal |-> file = "part_000" /\ bind_local, peer |-> "none"]

\* UdpTransport::open_connect: the socket is connected to the endpoint.
UdpTransport_open_connect(file, addr) ==
  [file |-> file, isBoundLocal |-> FALSE, peer |-> addr]

\* make_shared_stream(UdpEndpoint): open_connect, then set_peer(ep).
make_shared_stream(file, addr) ==
  [udp |-> UdpTransport_open_connect(file, addr),
   last_peer_ |-> DuplexDatagramStream_set_peer(addr)]

\* make_shared_stream_for_server: open_bind, no peer is set.
make_shared_stream_for_server(file, bind_local) ==
  [udp |-> UdpTransport_open_bind(file, bind_local), last_peer_ |-> "nullopt"]

\* The calls each program makes on its stream: main() and udp_server().
\* read_string is read_int32 followed by read_bytes.
Program(side) ==
  IF side = "client"
    THEN <<"write_string", "read_int32", "read_bytes">>
    ELSE <<"read_int32", "read_bytes", "write_string">>

\* Past the last call of a program.
Returned == Len(Program("client")) + 1

At(side, call) ==
  /\ ends[side].raised = "none"
  /\ ends[side].pc < Returned
  /\ Program(side)[ends[side].pc] = call

\* The plain write() calls of a write_string on a DuplexDatagramStream, one
\* after the other: <<raised, sends>>.
RECURSIVE DuplexWrites(_, _, _, _)
DuplexWrites(peer, u, w, writes) ==
  IF writes = <<>>
    THEN <<FALSE, w>>
    ELSE LET r == DuplexDatagramStream_write("net_io_adapters.ixx", peer, u, w, Head(writes),
                                             "unset")
         IN IF r.raised THEN <<TRUE, w>> ELSE DuplexWrites(peer, u, r.wire, Tail(writes))

\* The network between the two sockets: the datagrams of sends that are
\* addressed to dest, as they queue in the socket there.
RECURSIVE Delivered(_, _, _)
Delivered(w, dest, from) ==
  IF w = <<>>
    THEN <<>>
    ELSE (IF Head(w).to = dest THEN <<[from |-> from, data |-> Head(w).data]>> ELSE <<>>)
           \o Delivered(Tail(w), dest, from)

EchoOnly == UNCHANGED <<ownVars, netVars, sinkVars, srcVars, dupVars, srvVars, exceptEcho>>

EchoInit ==
  /\ OwnIdle /\ NetIdle /\ SinkIdle /\ SrcIdle /\ DupIdle /\ SrvIdle
  /\ TsIdle /\ ShIdle /\ PeerIdle /\ CliIdle /\ StrIdle /\ WtIdle /\ UcIdle /\ SndIdle /\ ExeIdle
  /\ RtIdle
  /\ BosIdle
  /\ UoIdle /\ AccIdle /\ ScIdle /\ EptIdle
  /\ echo \in [order : Orders, req : Strings, reply : Strings]
  /\ \E file \in UdpFiles, bind_local \in BOOLEAN :
       LET c == make_shared_stream(file, ServerAddr)
           s == make_shared_stream_for_server(file, bind_local)
           End(m) == [pc |-> 1, raised |-> "none", len |-> 0, got |-> <<>>,
                      last_peer_ |-> m.last_peer_, udp |-> m.udp, inq |-> <<>>]
       IN ends = [side \in Sides |-> IF side = "client" THEN End(c) ELSE End(s)]
  /\ replies = <<>>

\* out.write_string(s); out.flush(): DuplexDatagramStream::write sends each
\* write at once, and flush() finds the sink's buffer empty.
EchoWriteString(side) ==
  /\ At(side, "write_string")
  /\ LET e == ends[side]
         s == IF side = "client" THEN echo.req ELSE echo.reply
         r == DuplexWrites(e.last_peer_, e.udp, <<>>, DataOutputStream_write_string(echo.order, s))
         f == DatagramSink_flush(<<>>, e.udp, r[2])
         o == Other(side)
     IN /\ ends' = [ends EXCEPT
                      ![side].pc = IF r[1] THEN @ ELSE @ + 1,
                      ![side].raised = IF r[1] THEN "no peer" ELSE "none",
                      ![o].inq = @ \o Delivered(f[2], AddrOf(o), AddrOf(side))]
        /\ replies' = IF side = "server" THEN replies \o f[2] ELSE replies
  /\ UNCHANGED echo
  /\ EchoOnly

\* in.read_string(), its read_int32: read_bytes(4) on the stream, which
\* blocks until a datagram is queued.
EchoReadInt32(side) ==
  /\ At(side, "read_int32")
  /\ ends[side].inq # <<>>
  /\ LET e == ends[side]
         r == DuplexDatagramStream_read(e.last_peer_, e.inq, 4)
         x == DataInputStream_read_bytes(r.ret, 4)
         len == IF x = "none" THEN DataInputStream_read_int32(echo.order, r.ret) ELSE 0
         y == IF x = "none" THEN DataInputStream_read_string_check(len) ELSE x
     IN ends' = [ends EXCEPT ![side].last_peer_ = r.peer,
                             ![side].inq = r.q,
                             ![side].len = len,
                             ![side].raised = y,
                             ![side].pc = IF y = "none" THEN @ + 1 ELSE @]
  /\ UNCHANGED <<echo, replies>>
  /\ EchoOnly

\* in.read_string(), its read_bytes(len).
EchoReadBytes(side) ==
  /\ At(side, "read_bytes")
  /\ ends[side].inq # <<>>
  /\ LET e == ends[side]
         r == DuplexDatagramStream_read(e.last_peer_, e.inq, e.len)
         x == DataInputStream_read_bytes(r.ret, e.len)
     IN ends' = [ends EXCEPT ![side].last_peer_ = r.peer,
                             ![side].inq = r.q,
                             ![side].got = IF x = "none" THEN r.ret ELSE @,
                             ![side].raised = x,
                             ![side].pc = IF x = "none" THEN @ + 1 ELSE @]
  /\ UNCHANGED <<echo, replies>>
  /\ EchoOnly

EchoNext ==
  \/ \E side \in Sides : EchoWriteString(side)
  \/ \E side \in Sides : EchoReadInt32(side)
  \/ \E side \in Sides : EchoReadBytes(side)

SpecEcho == EchoInit /\ [][EchoNext]_vars

\* C14: the server's reply, written with plain write() and never given a
\* destination, is sent to the address the request came from, and the
\* client's read_string returns exactly the reply string.
C14_ReplyReachesRequestSender ==
  /\ \A i \in DOMAIN replies : replies[i].to = ClientAddr
  /\ \A side \in Sides : ends[side].raised = "none"
  /\ ends["client"].pc = Returned => ends["client"].got = echo.reply
  /\ ends["server"].pc >= 3 => ends["server"].got = echo.req

\* =====================================================================
\* TcpClient, call by call: open(), write(), close() against the OS
\* =====================================================================
\* The values a failing ::socket / ::connect leaves in errno, and the one a
\* failing ::close leaves there ("kept": ::close does not touch errno).
Errnos == {"ECONNREFUSED", "ETIMEDOUT"}
CloseErrnos == {"kept", "EIO"}

\* What the OS answers during one open() call.
OpenEnvs ==
  [resolves : BOOLEAN, socket : BOOLEAN, connect : BOOLEAN, errno : Errnos,
   close_errno : CloseErrnos]

\* A system call that fails sets errno.
OsFail(o, e) == [o EXCEPT !.errno = e]

\* ::close(fd) that may leave a value in errno.
OsCloseErrno(o, fd, e) == IF e = "kept" THEN OsClose(o, fd) ELSE OsFail(OsClose(o, fd), e)

\* fd_ = ::socket(...): <<object after, OS after>>. The handle fd_ held is
\* not looked at.
assign_fd__closes_first(c, o, fd) ==
  <<[c EXCEPT !.fd_ = fd], IF c.fd_ # invalid_socket THEN OsClose(o, c.fd_) ELSE o>>

assign_fd_(c, o, fd) == <<[c EXCEPT !.fd_ = fd], o>>

\* TcpClient::open, the branch of a failed ::connect on the socket fd:
\* int err = errno; ::close(fd_); fd_ = invalid_socket; throw(..., err).
connect_failed_errno_at_throw(c, o, fd, e) ==
  LET o1 == OsFail(o, e.errno)
      o2 == OsCloseErrno(o1, c.fd_, e.close_errno)
  IN [c |-> [c EXCEPT !.fd_ = invalid_socket], o |-> o2, raised |-> "connect() failed",
      code |-> o2.errno, created |-> fd]

connect_failed(c, o, fd, e) ==
  LET o1 == OsFail(o, e.errno)
      err == o1.errno
      o2 == OsCloseErrno(o1, c.fd_, e.close_errno)
  IN [c |-> [c EXCEPT !.fd_ = invalid_socket], o |-> o2, raised |-> "connect() failed",
      code |-> err, created |-> fd]

\* TcpClient::open, statement by statement: the object and the OS after, the
\* exception that leaves it ("none": it returns) and the code it carries, the
\* socket the call created.
TcpClient_open_steps(c, o, e) ==
  IF c.ep_ = "nullopt"
    THEN [c |-> c, o |-> o, raised |-> "open() failed: no endpoint set", code |-> "0",
          created |-> invalid_socket]
  ELSE IF ~e.resolves
    THEN [c |-> c, o |-> o, raised |-> "getaddrinfo failed", code |-> "none",
          created |-> invalid_socket]
  ELSE IF ~e.socket
    THEN LET r == assign_fd_(c, OsFail(o, e.errno), invalid_socket) IN
         [c |-> r[1], o |-> r[2], raised |-> "socket() failed", code |-> r[2].errno,
          created |-> invalid_socket]
  ELSE LET r == assign_fd_(c, OsSocket(o), o.next) IN
       IF ~e.connect
         THEN connect_failed(r[1], r[2], o.next, e)
         ELSE [c |-> r[1], o |-> r[2], raised |-> "none", code |-> "none", created |-> o.next]

\* TcpClient::write(data, size); accepted is what ::write returns (-1: it
\* fails). The exception that leaves it, and the ::write calls it made.
TcpClient_write_loops(c, size, accepted) ==
  IF c.fd_ = invalid_socket
    THEN [raised |-> "write() failed: socket not open", oswrites |-> <<>>]
    ELSE IF accepted < 0
      THEN [raised |-> "write() failed",
            oswrites |-> <<[fd |-> c.fd_, size |-> size, ret |-> accepted]>>]
      ELSE [raised |-> "none",
            oswrites |-> <<[fd |-> c.fd_, size |-> size, ret |-> accepted]>>
                           \o (IF accepted < size
                                 THEN <<[fd |-> c.fd_, size |-> size - accepted,
                                         ret |-> size - accepted]>>
                                 ELSE <<>>)]

TcpClient_write(c, size, accepted) ==
  IF c.fd_ = invalid_socket
    THEN [raised |-> "write() failed: socket not open", oswrites |-> <<>>]
    ELSE [raised |-> IF accepted < 0 \/ accepted # size THEN "write() failed" ELSE "none",
          oswrites |-> <<[fd |-> c.fd_, size |-> size, ret |-> accepted]>>]

\* TcpClient::is_open
is_open(c) == c.fd_ # invalid_socket

NoEnv ==
  [resolves |-> TRUE, socket |-> TRUE, connect |-> TRUE, errno |-> "none", close_errno |-> "kept"]

\* The record of a call on the object as it is now.
CallOf(op) ==
  [op |-> op, before |-> cl.fd_, ep |-> cl.ep_, env |-> NoEnv, raised |-> "none",
   code |-> "none", created |-> invalid_socket, size |-> 0, oswrites |-> <<>>]

CliOnly == UNCHANGED <<ownVars, netVars, sinkVars, srcVars, dupVars, srvVars, exceptCli>>

CliInit ==
  /\ OwnIdle /\ NetIdle /\ SinkIdle /\ SrcIdle /\ DupIdle /\ SrvIdle /\ LaterIdle

\* TcpClient(fd) around a socket the OS has just handed out.
CliConstructFromHandle ==
  /\ cl.st = "none"
  /\ cos.next <= MaxHandles
  /\ cl' = [st |-> "live", fd_ |-> cos.next, ep_ |-> "nullopt"]
  /\ cos' = OsSocket(cos)
  /\ ccall' = CallOf("construct")
  /\ UNCHANGED <<heldAtOpen, heldAtSocket>>
  /\ CliOnly

\* TcpClient(ep)
CliConstructClosed ==
  /\ cl.st = "none"
  /\ cl' = [st |-> "live", fd_ |-> invalid_socket, ep_ |-> "set"]
  /\ ccall' = CallOf("construct")
  /\ UNCHANGED <<cos, heldAtOpen, heldAtSocket>>
  /\ CliOnly

CliOpen(e) ==
  /\ cl.st = "live"
  /\ cos.next <= MaxHandles
  /\ LET r == TcpClient_open_steps(cl, cos, e)
         held == IF is_open(cl) THEN {cl.fd_} ELSE {}
     IN /\ cl' = r.c
        /\ cos' = r.o
        /\ ccall' = [CallOf("open") EXCEPT !.env = e, !.raised = r.raised, !.code = r.code,
                                           !.created = r.created]
        /\ heldAtOpen' = heldAtOpen \cup held
        /\ heldAtSocket' = heldAtSocket
                             \cup (IF cl.ep_ = "set" /\ e.resolves THEN held ELSE {})
  /\ CliOnly

CliWrite(size, accepted) ==
  /\ cl.st = "live"
  /\ LET r == TcpClient_write(cl, size, accepted) IN
       ccall' = [CallOf("write") EXCEPT !.size = size, !.raised = r.raised,
                                        !.oswrites = r.oswrites]
  /\ UNCHANGED <<cl, cos, heldAtOpen, heldAtSocket>>
  /\ CliOnly

CliClose ==
  /\ cl.st = "live"
  /\ LET r == close(cl, cos) IN
       /\ cl' = r[1]
       /\ cos' = r[2]
  /\ ccall' = CallOf("close")
  /\ UNCHANGED <<heldAtOpen, heldAtSocket>>
  /\ CliOnly

\* ~TcpClient: close(), then the object is gone.
CliDestroy ==
  /\ cl.st = "live"
  /\ LET r == close(cl, cos) IN
       /\ cl' = [st |-> "none", fd_ |-> invalid_socket, ep_ |-> "nullopt"]
       /\ cos' = r[2]
  /\ ccall' = CallOf("destroy")
  /\ UNCHANGED <<heldAtOpen, heldAtSocket>>
  /\ CliOnly

CliNext ==
  \/ CliConstructFromHandle
  \/ CliConstructClosed
  \/ \E e \in OpenEnvs : CliOpen(e)
  \/ \E size \in 0..MaxWrite, accepted \in -1..MaxWrite : accepted <= size /\ CliWrite(size, accepted)
  \/ CliClose
  \/ CliDestroy

SpecClient == CliInit /\ [][CliNext]_vars

\* C16: when ::connect fails inside open(), the socket that call created is
\* closed before the exception leaves open(), the exception is "connect()
\* failed" with the errno of the failed connect, and the client holds no
\* handle afterwards.
C16_ConnectFailureClosesAndReports ==
  (ccall.op = "open" /\ ccall.ep = "set" /\ ccall.env.resolves /\ ccall.env.socket
     /\ ~ccall.env.connect) =>
    /\ ccall.created # invalid_socket
    /\ cos.closes[ccall.created] = 1
    /\ ccall.raised = "connect() failed"
    /\ ccall.code = ccall.env.errno
    /\ ~is_open(cl)

\* open() failed at ::connect and the ::close that followed left its own
\* value in errno.
C16_Witness ==
  /\ ccall.op = "open" /\ ccall.raised = "connect() failed"
  /\ ccall.env.close_errno = "EIO" /\ cos.errno = "EIO"
  /\ ccall.created # invalid_socket

\* C17: write() returns normally exactly when its one ::write took all size
\* bytes; it never makes a second ::write, so what a failed or short ::write
\* left over is not sent; without a socket it raises and makes no ::write.
C17_WriteAllOrError ==
  ccall.op = "write" =>
    /\ Len(ccall.oswrites) <= 1
    /\ ccall.raised = "none" <=>
         (Len(ccall.oswrites) = 1 /\ ccall.oswrites[1].ret = ccall.size)
    /\ ccall.before = invalid_socket => (ccall.raised # "none" /\ ccall.oswrites = <<>>)
    /\ ccall.before # invalid_socket =>
         (Len(ccall.oswrites) = 1 /\ ccall.oswrites[1].fd = ccall.before
            /\ ccall.oswrites[1].size = ccall.size)

\* A short write: ::write took one byte of two, write() raised.
C17_Witness ==
  /\ ccall.op = "write" /\ ccall.size = 2 /\ ccall.raised = "write() failed"
  /\ Len(ccall.oswrites) = 1 /\ ccall.oswrites[1].ret = 1

\* C18, as stated: a handle the object holds when open() is called is not
\* held by the object afterwards and is never closed by it.
C18_EveryOpenOverwrites ==
  \A h \in heldAtOpen : cl.fd_ # h /\ cos.closes[h] = 0

\* C18: open() does not close the handle the object holds. When open() gets as
\* far as ::socket (an endpoint is set and resolves), fd_ is overwritten with
\* the result and the earlier handle is never closed by this object, neither
\* by close() nor by the destructor; when open() raises before that, the
\* object goes on holding the handle.
C18_OpenOverwritesAtSocket ==
  /\ \A h \in heldAtSocket : cl.fd_ # h /\ cos.closes[h] = 0
  /\ (ccall.op = "open" /\ ccall.before # invalid_socket) =>
       /\ cos.closes[ccall.before] = 0
       /\ (ccall.ep = "nullopt" \/ ~ccall.env.resolves) => cl.fd_ = ccall.before

\* The object was opened twice and then destroyed: the first socket is open.
C18_Witness ==
  /\ cl.st = "none"
  /\ \E h \in heldAtSocket : cos.closes[h] = 0
  /\ \E g \in 1..MaxHandles : g \notin heldAtSocket /\ cos.closes[g] = 1

\* =====================================================================
\* The length-prefixed string over TCP: write_string on one side of a
\* connection, read_string on the other (TransportSink / TransportSource
\* around a TcpClient, no buffer in between)
\* =====================================================================
\* What ::read can return when size bytes are asked for and the bytes of
\* stream are under way to the socket: -1 (it fails), or the number of bytes
\* that have arrived by then, at least one (with none it blocks).
OsRead(stream, size) ==
  {-1} \cup (IF size = 0 THEN {0} ELSE 1..Min(size, Len(stream)))

\* TcpClient::read: one ::read, a negative result is returned as 0.
TcpClient_read(stream, size, ret) ==
  IF ret < 0
    THEN [n |-> 0, data |-> <<>>, stream |-> stream]
    ELSE [n |-> ret, data |-> SubSeq(stream, 1, ret),
          stream |-> SubSeq(stream, ret + 1, Len(stream))]

\* The writes of a write_string on a TransportSink, one TcpClient::write
\* each; accepted[i] is what the i-th ::write returns. <<raised, the bytes
\* the OS took>>.
RECURSIVE TcpWrites(_, _, _)
TcpWrites(c, writes, accepted) ==
  IF writes = <<>>
    THEN <<FALSE, <<>>>>
    ELSE LET r == TcpClient_write(c, Len(Head(writes)), Head(accepted))
             took == SubSeq(Head(writes), 1, Head(accepted))
         IN IF r.raised # "none"
              THEN <<TRUE, took>>
              ELSE LET rest == TcpWrites(c, Tail(writes), Tail(accepted))
                   IN <<rest[1], took \o rest[2]>>

\* A connected client, as make_shared_stream / tcp_stream_builder hold it.
Connected == [st |-> "live", fd_ |-> 1, ep_ |-> "set"]

StrOnly == UNCHANGED <<ownVars, netVars, sinkVars, srcVars, dupVars, srvVars, exceptStr>>

StrInit ==
  /\ OwnIdle /\ NetIdle /\ SinkIdle /\ SrcIdle /\ DupIdle /\ SrvIdle
  /\ TsIdle /\ ShIdle /\ PeerIdle /\ EchoIdle /\ CliIdle /\ WtIdle /\ UcIdle /\ SndIdle /\ ExeIdle
  /\ RtIdle
  /\ BosIdle
  /\ UoIdle /\ AccIdle /\ ScIdle /\ EptIdle
  /\ \E order \in Orders, s \in Strings :
       conn = [order |-> order, s |-> s, sender |-> "write_string",
               receiver |-> "read_int32", stream |-> <<>>, len |-> 0, got |-> <<>>,
               oserr |-> FALSE, short |-> FALSE]

\* out.write_string(s); out.flush(): two writes on the socket; flush() of a
\* TransportSink does nothing.
StrWriteString(a1, a2) ==
  /\ conn.sender = "write_string"
  /\ a1 <= 4 /\ a2 <= Len(conn.s)
  /\ LET r == TcpWrites(Connected, DataOutputStream_write_string(conn.order, conn.s),
                        <<a1, a2>>)
     IN conn' = [conn EXCEPT !.sender = IF r[1] THEN "raised" ELSE "done",
                             !.stream = @ \o r[2]]
  /\ StrOnly

\* in.read_string(), its read_int32: read_bytes(4), one read on the socket.
StrReadInt32(ret) ==
  /\ conn.receiver = "read_int32"
  /\ ret \in OsRead(conn.stream, 4)
  /\ LET r == TcpClient_read(conn.stream, 4, ret)
         x == DataInputStream_read_bytes(r.data, 4)
         len == IF x = "none"
                  THEN DataInputStream_read_int32(conn.order, ReadBuffer(r.data, 4))
                  ELSE 0
         y == IF x = "none" THEN DataInputStream_read_string_check(len) ELSE x
     IN conn' = [conn EXCEPT !.stream = r.stream,
                             !.len = len,
                             !.receiver = IF y = "none" THEN "read_bytes" ELSE y,
                             !.oserr = @ \/ ret < 0,
                             !.short = @ \/ (0 <= ret /\ ret < 4)]
  /\ StrOnly

\* in.read_string(), its read_bytes(len).
StrReadBytes(ret) ==
  /\ conn.receiver = "read_bytes"
  /\ ret \in OsRead(conn.stream, conn.len)
  /\ LET r == TcpClient_read(conn.stream, conn.len, ret)
         x == DataInputStream_read_bytes(r.data, conn.len)
     IN conn' = [conn EXCEPT !.stream = r.stream,
                             !.got = IF x = "none" THEN ReadBuffer(r.data, conn.len) ELSE @,
                             !.receiver = IF x = "none" THEN "done" ELSE x,
                             !.oserr = @ \/ ret < 0,
                             !.short = @ \/ (0 <= ret /\ ret < conn.len)]
  /\ StrOnly

StrNext ==
  \/ \E a1 \in -1..4, a2 \in -1..MaxStr : StrWriteString(a1, a2)
  \/ \E ret \in -1..4 : StrReadInt32(ret)
  \/ \E ret \in -1..MaxStr : StrReadBytes(ret)

SpecTcpString == StrInit /\ [][StrNext]_vars

\* C15: when write_string has written s and no socket read failed,
\* read_string does not raise, and what it returns is s byte for byte,
\* however the OS splits the bytes over the results of the reads.
C15_ReadStringReturnsWhatWasWritten ==
  (conn.sender = "done" /\ ~conn.oserr) =>
    /\ conn.receiver \in {"read_int32", "read_bytes", "done"}
    /\ conn.receiver = "done" => conn.got = conn.s

\* =====================================================================
\* UdpTransport::write_to on an open socket
\* =====================================================================
\* The transport after open_bind or open_connect, in either copy.
OpenedTransports ==
  {UdpTransport_open_bind(file, bind_local) : file \in UdpFiles, bind_local \in BOOLEAN}
    \cup {UdpTransport_open_connect(file, addr) : file \in UdpFiles, addr \in Addr}

WtOnly ==
  UNCHANGED <<ownVars, sinkVars, srcVars, dupVars, srvVars, exceptWt, udp, inq, arrived>>

WtInit ==
  /\ OwnIdle /\ SinkIdle /\ SrcIdle /\ DupIdle /\ SrvIdle
  /\ TsIdle /\ ShIdle /\ PeerIdle /\ EchoIdle /\ CliIdle /\ StrIdle /\ UcIdle /\ SndIdle /\ ScIdle
  /\ RtIdle
  /\ BosIdle
  /\ UoIdle /\ AccIdle /\ EptIdle /\ ExeIdle
  /\ udp \in OpenedTransports
  /\ inq = <<>>
  /\ arrived = <<>>
  /\ wire = <<>>
  /\ asked = <<>>

\* write_to(data, size, addr, len)
WtWriteTo(size, addr) ==
  /\ Len(wire) < MaxSends
  /\ wire' = UdpTransport_write_to(udp, wire, Data(0, size), addr)
  /\ asked' = Append(asked, addr)
  /\ WtOnly

\* write(data, size)
WtWrite(size) ==
  /\ Len(wire) < MaxSends
  /\ wire' = UdpTransport_write(udp, wire, Data(0, size))
  /\ asked' = Append(asked, "none")
  /\ WtOnly

WtNext ==
  \/ \E size \in 0..MaxWrite, addr \in Addr : WtWriteTo(size, addr)
  \/ \E size \in 0..MaxWrite : WtWrite(size)

SpecWriteTo == WtInit /\ [][WtNext]_vars

\* C20: every send that write_to issues is addressed to the address write_to
\* was given, however the transport was opened and whatever bind_local was.
C20_WriteToSendsToGivenAddress ==
  \A i \in DOMAIN wire : asked[i] \in Addr => wire[i].to = asked[i]

\* =====================================================================
\* A UDP stream made for a client endpoint, before any datagram arrives
\* =====================================================================
\* make_stream(UdpEndpoint) of unnamed/part_001: open_bind or open_connect
\* by ep.bind_local; the DuplexDatagramStream is handed out as constructed.
make_stream(file, addr, bind_local) ==
  [udp |-> IF bind_local THEN UdpTransport_open_bind(file, bind_local)
                         ELSE UdpTransport_open_connect(file, addr),
   last_peer_ |-> "nullopt"]

\* The factory for a UDP client endpoint in each copy of the adapters.
ClientFactory(b) == IF b = "net_io_adapters.ixx" THEN "make_shared_stream" ELSE "make_stream"

UcInit ==
  /\ OwnIdle /\ SinkIdle /\ SrcIdle /\ SrvIdle
  /\ TsIdle /\ ShIdle /\ PeerIdle /\ EchoIdle /\ CliIdle /\ StrIdle /\ WtIdle /\ SndIdle /\ ScIdle
  /\ RtIdle
  /\ BosIdle
  /\ UoIdle /\ AccIdle /\ EptIdle /\ ExeIdle
  /\ build \in Builds
  /\ \E file \in UdpFiles, ep \in Addr :
       LET m == IF ClientFactory(build) = "make_shared_stream"
                  THEN make_shared_stream(file, ep)
                  ELSE make_stream(file, ep, FALSE)
       IN /\ udp = m.udp
          /\ last_peer_ = m.last_peer_
          /\ made = [factory |-> ClientFactory(build), ep |-> ep]
          /\ known_peer = IF m.last_peer_ = "nullopt" THEN "none" ELSE m.last_peer_
          /\ known_via = IF m.last_peer_ = "nullopt" THEN "none" ELSE "set_peer"
  /\ inq = <<>>
  /\ arrived = <<>>
  /\ wire = <<>>
  /\ last_write = NoWrite

\* What the program does with the stream: it reads and writes; it never
\* calls set_peer itself.
UcNext ==
  \/ \E from \in Addr, len \in {0, MaxLen} : DupArrive(from, len)
  \/ \E size \in 0..MaxRead : DupRead(size)
  \/ \E size \in {0, MaxWrite} : DupWrite(size)
  \/ DupFlush

SpecUdpClient == UcInit /\ [][UcNext]_vars

\* C21: as long as no datagram has been received, the remembered peer of a
\* stream made for a client endpoint is that endpoint, and a plain write()
\* made then raises nothing and is sent to the endpoint.
C21_ClientStreamKnowsItsEndpoint ==
  /\ known_via # "read" => last_peer_ = made.ep
  /\ (last_write.made /\ last_write.via # "read") =>
       (~last_write.raised /\ last_write.sent /\ last_write.dest = made.ep)

\* ---------------------------------------------------------------------
\* C22: a read() that has to fetch (pos_ is at the end of buffer_) and whose
\* fetch receives a datagram of 0 bytes returns 0 and copies nothing.
C22_ZeroLengthFetchReturnsZero ==
  [][ (/\ src_pos >= src_buffer.size
       /\ inq # <<>>
       /\ Head(inq).data = <<>>
       /\ Len(results') = Len(results) + 1
       /\ ~results'[Len(results')].thrown)
      => results'[Len(results')].data = <<>> ]_vars

\* The first read() asked for bytes and fetched a datagram of 0 bytes.
C22_Witness ==
  /\ arrived # <<>> /\ arrived[1] = <<>>
  /\ results # <<>>
  /\ results[1].size > 0 /\ ~results[1].thrown /\ results[1].data = <<>>

\* =====================================================================
\* UdpTransport::write / write_to and a send the OS rejects
\* =====================================================================
SendErrnos == {"ECONNREFUSED", "ENETUNREACH"}

\* What ::send / ::sendto of size bytes returns and leaves in errno: on a
\* descriptor that is not open -1 and EBADF, else size, or -1 and an errno.
OsSend(open, size) ==
  IF open
    THEN {[ret |-> size, errno |-> "none"]} \cup {[ret |-> -1, errno |-> e] : e \in SendErrnos}
    ELSE {[ret |-> -1, errno |-> "EBADF"]}

\* UdpTransport::write and write_to are noexcept and drop the result of
\* ::send / ::sendto: the exception that leaves the call, whatever r is.
UdpTransport_send_raises(r) == "none"

SndOnly ==
  UNCHANGED <<ownVars, netVars, sinkVars, srcVars, dupVars, srvVars, exceptSnd>>

SndInit ==
  /\ OwnIdle /\ NetIdle /\ SinkIdle /\ SrcIdle /\ DupIdle /\ SrvIdle /\ LaterIdle

\* open_bind / open_connect that succeed
SndOpen ==
  /\ ~snd.open
  /\ snd' = [snd EXCEPT !.open = TRUE]
  /\ SndOnly

\* close()
SndClose ==
  /\ snd.open
  /\ snd' = [snd EXCEPT !.open = FALSE]
  /\ SndOnly

\* write(data, size) and write_to(data, size, addr, len)
SndCall(op, size, r) ==
  /\ Len(snd.calls) < MaxSends
  /\ r \in OsSend(snd.open, size)
  /\ snd' = [snd EXCEPT !.calls = Append(@, [op |-> op, size |-> size, os |-> r,
                                              raised |-> UdpTransport_send_raises(r)])]
  /\ SndOnly

SndNext ==
  \/ SndOpen
  \/ SndClose
  \/ \E op \in {"write", "write_to"}, size \in 0..MaxWrite,
        r \in [ret : -1..MaxWrite, errno : SendErrnos \cup {"none", "EBADF"}] :
       SndCall(op, size, r)

SpecSend == SndInit /\ [][SndNext]_vars

\* C23: a write() or write_to() whose send the OS rejected raised an
\* exception that carries the OS error code.
C23_RejectedSendIsReported ==
  \A i \in DOMAIN snd.calls :
    snd.calls[i].os.ret < 0 => snd.calls[i].raised = snd.calls[i].os.errno

\* ---------------------------------------------------------------------
\* C24: a read_bytes(n) whose read on the source took fewer than n bytes
\* raises, and read_int32 / read_string hand out no value built from it.
C24_ShortReadRaises ==
  [][ (conn.receiver \in {"read_int32", "read_bytes"} /\ conn'.receiver # conn.receiver) =>
        LET n == IF conn.receiver = "read_int32" THEN 4 ELSE conn.len
            took == Len(conn.stream) - Len(conn'.stream)
        IN took < n =>
             /\ conn'.receiver = "Unexpected EOF"
             /\ conn'.len = conn.len
             /\ conn'.got = conn.got ]_vars

\* read_string raised on a read that returned a part of what was asked for
\* while the rest was under way.
C24_Witness ==
  /\ conn.receiver = "Unexpected EOF" /\ conn.short /\ ~conn.oserr
  /\ conn.sender = "done" /\ conn.stream # <<>>

\* =====================================================================
\* ThreadExecutor
\* =====================================================================
\* The callables main.cpp and run_server_with_executor submit.
Callables == {"accept loop", "handler"}

\* ThreadExecutor::execute(f): std::thread(std::move(f)).detach(). The new
\* thread is numbered after the task; execute returns with the thread
\* created and the task not yet begun.
execute(ts, f) ==
  Append(ts, [f |-> f, thread |-> Len(ts) + 1, st |-> "created", runs |-> 0])

\* A created thread begins its task when the scheduler picks it: no other
\* task is looked at.
Runnable_after_the_others(ts, i) ==
  /\ ts[i].st = "created"
  /\ \A j \in 1..(i - 1) : ts[j].st = "finished"

Runnable(ts, i) == ts[i].st = "created"

ExeOnly ==
  UNCHANGED <<ownVars, netVars, sinkVars, srcVars, dupVars, srvVars, exceptExe>>

ExeInit ==
  /\ OwnIdle /\ NetIdle /\ SinkIdle /\ SrcIdle /\ DupIdle /\ SrvIdle /\ LaterIdle

\* executor.execute(f)
ExeSubmit(f) ==
  /\ Len(tasks) < MaxTasks
  /\ tasks' = execute(tasks, f)
  /\ ExeOnly

\* The thread of task i begins f().
ExeRun(i) ==
  /\ i \in DOMAIN tasks
  /\ Runnable(tasks, i)
  /\ tasks' = [tasks EXCEPT ![i].st = "running", ![i].runs = @ + 1]
  /\ ExeOnly

\* f() returns and the detached thread ends.
ExeReturn(i) ==
  /\ i \in DOMAIN tasks
  /\ tasks[i].st = "running"
  /\ tasks' = [tasks EXCEPT ![i].st = "finished"]
  /\ ExeOnly

ExeNext ==
  \/ \E f \in Callables : ExeSubmit(f)
  \/ \E i \in 1..MaxTasks : ExeRun(i)
  \/ \E i \in 1..MaxTasks : ExeReturn(i)

SpecExecutor == ExeInit /\ [][ExeNext]_vars

\* The scheduler gives every created thread the processor in the end; a
\* task need not return.
SpecExecutorFair == SpecExecutor /\ \A i \in 1..MaxTasks : WF_vars(ExeRun(i))

\* C25: every submitted task has a thread of its own, is begun at most once,
\* and is begun in the end whatever the tasks submitted before it do;
\* execute returns before the task has begun.
C25_EachTaskRunsOnceOnItsOwnThread ==
  /\ [](\A i \in DOMAIN tasks :
          /\ tasks[i].runs <= 1
          /\ tasks[i].st # "created" => tasks[i].runs = 1
          /\ \A j \in DOMAIN tasks : i # j => tasks[i].thread # tasks[j].thread)
  /\ [][Len(tasks') = Len(tasks) + 1 => tasks'[Len(tasks')].st = "created"]_vars
  /\ \A i \in 1..MaxTasks :
       [](i \in DOMAIN tasks => <>(i \in DOMAIN tasks /\ tasks[i].runs = 1))

\* A later task has begun and returned while an earlier one is still running.
C25_Witness ==
  /\ Len(tasks) = MaxTasks
  /\ tasks[1].st = "running"
  /\ tasks[2].st = "finished"
  /\ tasks[MaxTasks].st = "running"

\* ---------------------------------------------------------------------------
\* SpecEndpoint: TcpEndpoint and UdpEndpoint, their constructors and to_sockaddr.
\* ---------------------------------------------------------------------------

EndpointKinds == {"TcpEndpoint", "UdpEndpoint"}

\* Address strings given to a constructor; "" is the empty string.
EndpointAddresses == {"", "127.0.0.1", "localhost"}

Ports == {0, 4000}

\* A variant whose constructor stores every address and leaves the rejection to the resolver.
Endpoint_construct_unchecked(kind, addr, p, bind_local_, lp) ==
  [st |-> "constructed", kind |-> kind, address |-> addr, port |-> p,
   bind_local |-> bind_local_, local_port |-> lp]

\* TcpEndpoint(addr, p) and UdpEndpoint(addr, p, bind_local_, lp): the members are
\* initialised, then an empty address throws std::invalid_argument.
Endpoint_construct(kind, addr, p, bind_local_, lp) ==
  IF addr = ""
    THEN [st |-> "invalid_argument", kind |-> kind, address |-> addr, port |-> p,
          bind_local |-> bind_local_, local_port |-> lp]
    ELSE [st |-> "constructed", kind |-> kind, address |-> addr, port |-> p,
          bind_local |-> bind_local_, local_port |-> lp]

\* The arguments a constructor call can carry: a TcpEndpoint has no bind setting.
CtorArgs ==
  {a \in [kind : EndpointKinds, addr : EndpointAddresses, p : Ports, bind_local_ : BOOLEAN, lp : Ports] :
     a.kind = "TcpEndpoint" => (~a.bind_local_ /\ a.lp = 0)}

EptOnly ==
  UNCHANGED <<ownVars, netVars, sinkVars, srcVars, dupVars, srvVars, exceptEpt>>

EptInit ==
  /\ OwnIdle /\ NetIdle /\ SinkIdle /\ SrcIdle /\ DupIdle /\ SrvIdle /\ LaterIdle

\* An endpoint is constructed; the previous one is gone.
EptConstruct(a) ==
  /\ ept' = Endpoint_construct(a.kind, a.addr, a.p, a.bind_local_, a.lp)
  /\ UNCHANGED osc
  /\ EptOnly

\* The address member is public and can be assigned after construction.
EptAssignAddress(addr) ==
  /\ ept.st \in {"constructed", "resolved", "runtime_error"}
  /\ ept' = [ept EXCEPT !.address = addr, !.st = "constructed"]
  /\ UNCHANGED osc
  /\ EptOnly

\* ep.to_sockaddr(passive): one getaddrinfo call, std::runtime_error when it fails.
\* The resolver never accepts an empty host name.
EptToSockaddr(passive, found) ==
  /\ ept.st \in {"constructed", "resolved", "runtime_error"}
  /\ osc.getaddrinfo < MaxOsCalls
  /\ (~passive /\ ept.address = "") => ~found
  /\ ept' = [ept EXCEPT !.st = IF found THEN "resolved" ELSE "runtime_error"]
  /\ osc' = [osc EXCEPT !.getaddrinfo = @ + 1]
  /\ EptOnly

\* A transport opened on a resolved endpoint creates its socket.
EptSocket ==
  /\ ept.st = "resolved"
  /\ osc.socket < MaxOsCalls
  /\ osc' = [osc EXCEPT !.socket = @ + 1]
  /\ UNCHANGED ept
  /\ EptOnly

EptNext ==
  \/ \E a \in CtorArgs : EptConstruct(a)
  \/ \E addr \in EndpointAddresses : EptAssignAddress(addr)
  \/ \E passive \in BOOLEAN, found \in BOOLEAN : EptToSockaddr(passive, found)
  \/ EptSocket

SpecEndpoint == EptInit /\ [][EptNext]_vars

\* C26: constructing a TcpEndpoint or a UdpEndpoint with an empty address string ends in
\* std::invalid_argument for every port and bind setting, and the construction makes no
\* getaddrinfo call and creates no socket.
C26_EmptyAddressIsInvalidArgument ==
  [][ \A a \in CtorArgs :
        (a.addr = "" /\ EptConstruct(a)) =>
           /\ ept'.st = "invalid_argument"
           /\ osc' = osc ]_vars

C26_Witness ==
  /\ ept.st = "invalid_argument"
  /\ ept.kind = "UdpEndpoint"
  /\ ept.bind_local
  /\ ept.port = 4000
  /\ osc.getaddrinfo > 0
  /\ osc.socket > 0

\* ---------------------------------------------------------------------------
\* SpecServerCopy: the special member functions of TcpServer. The class
\* declares a constructor from an endpoint and a destructor and nothing else,
\* so the copy constructor and the copy assignment are declared implicitly and
\* defaulted (member by member), and no move operation is declared: an rvalue
\* TcpServer binds to the copy operations.
\* ---------------------------------------------------------------------------

\* explicit TcpServer(const TcpEndpoint& ep): listen_fds_ starts empty.
TcpServer_from_ep == [st |-> "live", listen_fds_ |-> <<>>]

\* The implicit copy constructor: listen_fds_ is copied, the source keeps its own.
TcpServer_copy(src) == [st |-> "live", listen_fds_ |-> src.listen_fds_]

\* The close calls a stop() of ob would make stay within the bound.
ClosesWithinBound(ob) == \A h \in Range(ob.listen_fds_) : sos.closes[h] < MaxCloseCalls

\* Objects that hold handle h in listen_fds_.
HoldersOf(h) == {s \in Srvs : servers[s].st = "live" /\ h \in Range(servers[s].listen_fds_)}

ScOnly ==
  UNCHANGED <<ownVars, netVars, sinkVars, srcVars, dupVars, srvVars, exceptSc>>

ScInit ==
  /\ OwnIdle /\ NetIdle /\ SinkIdle /\ SrcIdle /\ DupIdle /\ SrvIdle /\ LaterIdle

ScConstruct(s) ==
  /\ servers[s].st = "none"
  /\ servers' = [servers EXCEPT ![s] = TcpServer_from_ep]
  /\ UNCHANGED sos
  /\ ScOnly

\* s.start() binding `bound` address families.
ScStart(s, bound) ==
  /\ servers[s].st = "live"
  /\ sos.next + bound - 1 <= MaxHandles
  /\ LET r == start(servers[s].listen_fds_, sos, bound) IN
       /\ servers' = [servers EXCEPT ![s].listen_fds_ = r[1]]
       /\ sos' = r[2]
  /\ ScOnly

ScStop(s) ==
  /\ servers[s].st = "live"
  /\ ClosesWithinBound(servers[s])
  /\ LET r == stop(servers[s].listen_fds_, sos) IN
       /\ servers' = [servers EXCEPT ![s].listen_fds_ = r[1]]
       /\ sos' = r[2]
  /\ ScOnly

\* TcpServer t(s); or TcpServer t(std::move(s));
ScCopyConstruct(s, t) ==
  /\ s # t
  /\ servers[s].st = "live"
  /\ servers[t].st = "none"
  /\ servers' = [servers EXCEPT ![t] = TcpServer_copy(servers[s])]
  /\ UNCHANGED sos
  /\ ScOnly

\* t = s; or t = std::move(s); the list of t is replaced, its handles are not closed.
ScCopyAssign(s, t) ==
  /\ s # t
  /\ servers[s].st = "live"
  /\ servers[t].st = "live"
  /\ servers' = [servers EXCEPT ![t] = TcpServer_copy(servers[s])]
  /\ UNCHANGED sos
  /\ ScOnly

\* ~TcpServer() { stop(); }
ScDestroy(s) ==
  /\ servers[s].st = "live"
  /\ ClosesWithinBound(servers[s])
  /\ LET r == stop(servers[s].listen_fds_, sos) IN
       /\ servers' = [servers EXCEPT ![s] = NoServer]
       /\ sos' = r[2]
  /\ ScOnly

ScNext ==
  \/ \E s \in Srvs : ScConstruct(s)
  \/ \E s \in Srvs, bound \in 0..2 : ScStart(s, bound)
  \/ \E s \in Srvs : ScStop(s)
  \/ \E s, t \in Srvs : ScCopyConstruct(s, t)
  \/ \E s, t \in Srvs : ScCopyAssign(s, t)
  \/ \E s \in Srvs : ScDestroy(s)

SpecServerCopy == ScInit /\ [][ScNext]_vars

\* C27: a TcpServer is not copyable: at every moment each listening socket handle
\* is held by at most one TcpServer object, and stop() and destruction close
\* no handle a second time.
C27_OneOwnerPerListeningSocket ==
  \A h \in Handles :
    /\ Cardinality(HoldersOf(h)) <= 1
    /\ sos.closes[h] <= 1

\* ---------------------------------------------------------------------------
\* SpecAccept: TcpServer::accept() listener by listener, and the TcpClient it returns.
\* ---------------------------------------------------------------------------

\* A variant that wraps whatever ::accept returned.
accept_one_unchecked(client_fd, o) ==
  IF client_fd = "invalid_socket"
    THEN [ret |-> TRUE, client |-> TcpClient_from_fd(invalid_socket), os |-> o]
    ELSE [ret |-> TRUE, client |-> TcpClient_from_fd(o.next), os |-> OsSocket(o)]

\* The body of accept()'s for loop for a ready listener: ::accept returned
\* client_fd; invalid_socket goes on to the next listener (continue), a
\* descriptor is returned wrapped in a TcpClient.
accept_one(client_fd, o) ==
  IF client_fd = "invalid_socket"
    THEN [ret |-> FALSE, client |-> NoObject, os |-> o]
    ELSE [ret |-> TRUE, client |-> TcpClient_from_fd(o.next), os |-> OsSocket(o)]

\* accept()'s for loop over listen_fds_ after select marked the listeners rfds
\* ready (out[fd] is what ::accept returns on fd). With no client at the end
\* the while loop goes round.
RECURSIVE TcpServer_accept_scan(_, _, _, _)
TcpServer_accept_scan(fds, rfds, out, o) ==
  IF fds = <<>> THEN [how |-> "again", client |-> NoObject, os |-> o]
  ELSE IF Head(fds) \in rfds /\ accept_one(out[Head(fds)], o).ret
    THEN LET r == accept_one(out[Head(fds)], o) IN [how |-> "client", client |-> r.client, os |-> r.os]
  ELSE TcpServer_accept_scan(Tail(fds), rfds, out, o)

AccOnly ==
  UNCHANGED <<ownVars, netVars, sinkVars, srcVars, dupVars, srvVars, exceptAcc>>

AccInit ==
  /\ OwnIdle /\ NetIdle /\ SinkIdle /\ SrcIdle /\ DupIdle /\ SrvIdle /\ LaterIdle

\* server.start() binding `bound` address families.
AccStart(bound) ==
  /\ acc.st = "idle"
  /\ aos.next + bound - 1 <= MaxHandles
  /\ LET r == start(asrv.listen_fds_, aos, bound) IN
       /\ asrv' = [asrv EXCEPT !.listen_fds_ = r[1]]
       /\ aos' = r[2]
  /\ UNCHANGED acc
  /\ AccOnly

AccStop ==
  /\ acc.st = "idle"
  /\ asrv.listen_fds_ # <<>>
  /\ LET r == stop(asrv.listen_fds_, aos) IN
       /\ asrv' = [asrv EXCEPT !.listen_fds_ = r[1]]
       /\ aos' = r[2]
  /\ UNCHANGED acc
  /\ AccOnly

\* accept() is called and waits in select.
AccCall ==
  /\ acc.st = "idle"
  /\ acc' = [NoAccept EXCEPT !.st = "select"]
  /\ UNCHANGED <<asrv, aos>>
  /\ AccOnly

\* select fails: accept() throws SocketException("select failed", errno).
AccSelectFails ==
  /\ acc.st = "select"
  /\ acc' = [acc EXCEPT !.st = "idle", !.how = "select failed", !.rfds = {}, !.at = asrv.listen_fds_]
  /\ UNCHANGED <<asrv, aos>>
  /\ AccOnly

\* select marks the listeners rfds ready and the for loop runs over listen_fds_.
AccRound(rfds, out) ==
  /\ acc.st = "select"
  /\ rfds # {}
  /\ rfds \subseteq Range(asrv.listen_fds_)
  /\ aos.next <= MaxHandles
  /\ acc.rounds < MaxRounds
  /\ LET r == TcpServer_accept_scan(asrv.listen_fds_, rfds, out, aos) IN
       /\ acc' = [st |-> IF r.how = "again" THEN "select" ELSE "idle", how |-> r.how,
                  client |-> r.client, at |-> asrv.listen_fds_, rfds |-> rfds, out |-> out,
                  rounds |-> acc.rounds + 1]
       /\ aos' = r.os
  /\ UNCHANGED asrv
  /\ AccOnly

AccNext ==
  \/ \E bound \in 1..2 : AccStart(bound)
  \/ AccStop
  \/ AccCall
  \/ AccSelectFails
  \/ \E rfds \in SUBSET Handles, out \in [Handles -> OsAccept] : AccRound(rfds, out)

SpecAccept == AccInit /\ [][AccNext]_vars

\* C29: the TcpClient accept() returns is open (its handle is not invalid_socket)
\* and its handle is none of the listening sockets; a round in which ::accept
\* failed on every ready listener returns no client, and accept() waits in
\* select again.
C29_AcceptReturnsOpenClient ==
  /\ acc.how = "client" =>
       /\ acc.client.st = "live"
       /\ is_open(acc.client)
       /\ acc.client.fd_ \notin Range(acc.at)
  /\ (acc.rfds # {} /\ \A l \in acc.rfds : acc.out[l] = "invalid_socket") =>
       /\ acc.how = "again"
       /\ acc.st = "select"
       /\ acc.client = NoObject

\* ::accept failed on the first ready listener and gave a connection on the second.
C29_Witness ==
  /\ acc.how = "client"
  /\ Len(acc.at) = 2
  /\ acc.rfds = Range(acc.at)
  /\ acc.out[acc.at[1]] = "invalid_socket"
  /\ acc.rounds = 2

\* ---------------------------------------------------------------------------
\* SpecUdpOpen: UdpTransport::open_bind / open_connect call by call, and what a
\* call that raises leaves in the transport.
\* ---------------------------------------------------------------------------

OpenFunctions == {"open_bind", "open_connect"}

\* open_bind makes no ::connect call; open_connect calls ::bind only for an
\* endpoint with bind_local (and a local port).
UdpOpenOutcomesOf(fn, bind_local) ==
  IF fn = "open_bind" THEN UdpOpenOutcomes \ {"connect"}
  ELSE IF bind_local THEN UdpOpenOutcomes
  ELSE UdpOpenOutcomes \ {"bind"}

UoOnly ==
  UNCHANGED <<ownVars, netVars, sinkVars, srcVars, dupVars, srvVars, exceptUo>>

UoInit ==
  /\ OwnIdle /\ NetIdle /\ SinkIdle /\ SrcIdle /\ DupIdle /\ SrvIdle /\ LaterIdle

\* udp.open_bind(ep) or udp.open_connect(ep), ending as outcome says.
UoOpen(fn, bind_local, outcome) ==
  /\ outcome \in UdpOpenOutcomesOf(fn, bind_local)
  /\ uos.next <= MaxHandles
  /\ LET r == UdpTransport_open(ut, uos, outcome) IN
       /\ ut' = r[1]
       /\ uos' = r[2]
  /\ uopen' = [fn |-> fn, bind_local |-> bind_local, outcome |-> outcome, raised |-> outcome # "ok"]
  /\ UoOnly

\* udp.close()
UoClose ==
  /\ LET r == close(ut, uos) IN
       /\ ut' = r[1]
       /\ uos' = r[2]
  /\ uopen' = NoOpen
  /\ UoOnly

\* The transport is destroyed (~UdpTransport: close()) and another one is made
\* by UdpTransport() = default.
UoRenew ==
  /\ ut.opened
  /\ ut' = UdpTransport_default
  /\ uos' = close(ut, uos)[2]
  /\ uopen' = NoOpen
  /\ UoOnly

UoNext ==
  \/ \E fn \in OpenFunctions, bind_local \in BOOLEAN, outcome \in UdpOpenOutcomes :
       UoOpen(fn, bind_local, outcome)
  \/ UoClose
  \/ UoRenew

SpecUdpOpen == UoInit /\ [][UoNext]_vars

\* C37: after an open_bind or open_connect that raised because ::socket, ::bind
\* or ::connect failed, the transport is closed: is_open() is false, fd_ is
\* invalid_socket.
C37_FailedUdpOpenLeavesClosed ==
  (uopen.raised /\ uopen.outcome \in {"socket", "bind", "connect"}) => ~is_open(ut)

\* ---------------------------------------------------------------------------
\* SpecBuffered: BufferedOutputStream<S, BufSize> over a sink that takes every
\* write: write(), flush(), the destructor.
\* ---------------------------------------------------------------------------

\* The loop of write(): chunk = min(BufSize - pos_, size - written), memcpy,
\* pos_ += chunk, written += chunk, flush_buffer() when pos_ == BufSize.
RECURSIVE BufferedOutputStream_write(_, _, _, _)
BufferedOutputStream_write(b, w, data, written) ==
  IF written >= Len(data) THEN [b |-> b, w |-> w]
  ELSE LET chunk == Min(BufSize - b.pos_, Len(data) - written)
           copied == [k \in 1..BufSize |->
                        IF k \in (b.pos_ + 1)..(b.pos_ + chunk)
                          THEN data[written + k - b.pos_] ELSE b.buffer_[k]]
           filled == [b EXCEPT !.buffer_ = copied, !.pos_ = b.pos_ + chunk]
           r == IF filled.pos_ = BufSize THEN flush_buffer(filled, w) ELSE [b |-> filled, w |-> w]
       IN BufferedOutputStream_write(r.b, r.w, data, written + chunk)

\* flush(): flush_buffer(), then sink_.flush(), which sends nothing by itself.
BufferedOutputStream_flush(b, w) == flush_buffer(b, w)

BosOnly ==
  UNCHANGED <<ownVars, netVars, sinkVars, srcVars, dupVars, srvVars, exceptBos>>

BosInit ==
  /\ OwnIdle /\ NetIdle /\ SinkIdle /\ SrcIdle /\ DupIdle /\ SrvIdle /\ LaterIdle

\* bos.write(data, size): the bytes are numbered on from those written before.
BosWrite(size) ==
  /\ bos.last # "destroyed"
  /\ Len(bwritten) + size <= MaxBuffered
  /\ LET data == Data(Len(bwritten), size)
         r == BufferedOutputStream_write(bos, bsink, data, 0) IN
       /\ bos' = [r.b EXCEPT !.last = "write"]
       /\ bsink' = r.w
       /\ bwritten' = bwritten \o data
  /\ BosOnly

BosFlush ==
  /\ bos.last # "destroyed"
  /\ LET r == BufferedOutputStream_flush(bos, bsink) IN
       /\ bos' = [r.b EXCEPT !.last = "flush"]
       /\ bsink' = r.w
  /\ UNCHANGED bwritten
  /\ BosOnly

\* ~BufferedOutputStream: try { flush(); } catch (...) {}
BosDestroy ==
  /\ bos.last # "destroyed"
  /\ LET r == BufferedOutputStream_flush(bos, bsink) IN
       /\ bos' = [r.b EXCEPT !.last = "destroyed"]
       /\ bsink' = r.w
  /\ UNCHANGED bwritten
  /\ BosOnly

BosNext ==
  \/ \E size \in 0..MaxBufWrite : BosWrite(size)
  \/ BosFlush
  \/ BosDestroy

SpecBuffered == BosInit /\ [][BosNext]_vars

Int32Values == {-2147483647 - 1, -16777216, -32768, -129, -1, 0, 255, 2147483647}

\* char values of a build whose char is signed.
CharValues == {-128, 0, 73}
CharStrings == UNION {[1..n -> CharValues] : n \in 0..MaxStr}

\* reinterpret_cast between char and std::byte, in both directions
CharToByte(c) == c % 256
ByteToChar(b) == IF b >= 128 THEN b - 256 ELSE b

\* FileInputStream::read(data, n): in_.read, then gcount()
FileInputStream_read(file, pos, n) == SubSeq(file, pos + 1, Min(pos + n, Len(file)))

\* The position of the DataInputStream's source in the file.
RtPos == IF dread = <<>> THEN 0 ELSE dread[Len(dread)].pos

RtOnly ==
  UNCHANGED <<ownVars, netVars, sinkVars, srcVars, dupVars, srvVars, exceptRt>>

RtInit ==
  /\ OwnIdle /\ NetIdle /\ SinkIdle /\ SrcIdle /\ DupIdle /\ SrvIdle /\ LaterIdle

\* DataOutputStream dout(sink, order) and DataInputStream din(source, order)
RtConstruct(order) ==
  /\ dwritten = <<>>
  /\ dorder # order
  /\ dorder' = order
  /\ UNCHANGED <<dfile, dwritten, dread>>
  /\ RtOnly

\* dout.write_int32(v)
RtWriteInt32(v) ==
  /\ Len(dwritten) < MaxItems
  /\ dfile' = dfile \o DataOutputStream_write_int32(dorder, v)
  /\ dwritten' = Append(dwritten, [kind |-> "int32", val |-> v, at |-> Len(dfile)])
  /\ UNCHANGED <<dorder, dread>>
  /\ RtOnly

\* dout.write_string(s): the length, then s.data() through
\* FileOutputStream::write(std::span<const char>)
RtWriteString(s) ==
  /\ Len(dwritten) < MaxItems
  /\ LET w == DataOutputStream_write_string(dorder, s) IN
       dfile' = dfile \o w[1] \o [k \in 1..Len(w[2]) |-> CharToByte(w[2][k])]
  /\ dwritten' = Append(dwritten, [kind |-> "string", val |-> s, at |-> Len(dfile)])
  /\ UNCHANGED <<dorder, dread>>
  /\ RtOnly

\* din.read_int32(), where dout wrote an int32
RtReadInt32 ==
  /\ Len(dread) < Len(dwritten)
  /\ dwritten[Len(dread) + 1].kind = "int32"
  /\ LET got == FileInputStream_read(dfile, RtPos, 4)
         ex == DataInputStream_read_bytes(got, 4) IN
       dread' = Append(dread,
         [val |-> IF ex = "none" THEN DataInputStream_read_int32(dorder, got) ELSE 0,
          ex |-> ex, pos |-> RtPos + Len(got)])
  /\ UNCHANGED <<dorder, dfile, dwritten>>
  /\ RtOnly

\* din.read_string(), where dout wrote a string
RtReadString ==
  /\ Len(dread) < Len(dwritten)
  /\ dwritten[Len(dread) + 1].kind = "string"
  /\ LET got == FileInputStream_read(dfile, RtPos, 4)
         ex == DataInputStream_read_bytes(got, 4)
         len == IF ex = "none" THEN DataInputStream_read_int32(dorder, got) ELSE 0
         chk == IF ex # "none" THEN ex ELSE DataInputStream_read_string_check(len)
         body == IF chk = "none"
                   THEN FileInputStream_read(dfile, RtPos + 4, len) ELSE <<>>
         ex2 == IF chk # "none" THEN chk ELSE DataInputStream_read_bytes(body, len) IN
       dread' = Append(dread,
         [val |-> IF ex2 = "none" THEN [k \in 1..Len(body) |-> ByteToChar(body[k])]
                  ELSE <<>>,
          ex |-> ex2, pos |-> RtPos + Len(got) + Len(body)])
  /\ UNCHANGED <<dorder, dfile, dwritten>>
  /\ RtOnly

RtNext ==
  \/ \E order \in Orders : RtConstruct(order)
  \/ \E v \in Int32Values : RtWriteInt32(v)
  \/ \E s \in CharStrings : RtWriteString(s)
  \/ RtReadInt32
  \/ RtReadString

SpecDataRoundTrip == RtInit /\ [][RtNext]_vars

\* The bytes of the i-th value written, as they stand in the file.
RtSegment(i) ==
  SubSeq(dfile, dwritten[i].at + 1,
         IF i < Len(dwritten) THEN dwritten[i + 1].at ELSE Len(dfile))

\* C39: reading with the same byte order the bytes a DataOutputStream
\* produced returns the values written: read_int32 after write_int32(v)
\* returns v, read_string after write_string(s) returns s, and a string
\* stands in the bytes as its length in four bytes, in the configured byte
\* order, followed by exactly that many bytes.
C39_DataRoundTripReturnsWrittenValues ==
  /\ \A i \in 1..Len(dread) :
       /\ dread[i].ex = "none"
       /\ dread[i].val = dwritten[i].val
  /\ \A i \in 1..Len(dwritten) :
       LET seg == RtSegment(i)
           n == Len(dwritten[i].val) IN
         dwritten[i].kind = "string" =>
           /\ Len(seg) = 4 + n
           /\ SubSeq(seg, 1, 4) = IF dorder = "big" THEN <<0, 0, n \div 256, n % 256>>
                                  ELSE <<n % 256, n \div 256, 0, 0>>
           /\ \A k \in 1..n : seg[4 + k] = CharToByte(dwritten[i].val[k])

\* A negative int32 and a string of MaxStr characters, one of them negative,
\* have been written and read back with the least significant byte first.
C39_Witness ==
  /\ dorder = "little"
  /\ Len(dread) = MaxItems
  /\ \E i, j \in 1..Len(dread) :
       /\ dwritten[i].kind = "int32" /\ dread[i].val < 0
       /\ dwritten[j].kind = "string" /\ Len(dread[j].val) = MaxStr
       /\ \E k \in 1..MaxStr : dread[j].val[k] < 0

====
